---------------------------- MODULE Spec2Model ----------------------------
(***************************************************************************)
(* Gomoku rules engine (GomokuEngine) and AI opponent (AIPlayer).          *)
(*                                                                         *)
(* Engines are objects: each holds a reference to its board array and to   *)
(* its move-history array.  The arrays live in two heaps (boards, hists)   *)
(* so that in-place mutation (board[r][c] = p, push, shift, pop) and       *)
(* aliasing between engines are visible in the model.                      *)
(***************************************************************************)
EXTENDS Integers, Sequences, FiniteSets, TLC

(***************************************************************************)
(* Program constants (config.js).                                          *)
(***************************************************************************)
BOARD_SIZE == 15
EMPTY == 0
BLACK == 1
WHITE == 2
MAX_HISTORY == 50

(***************************************************************************)
(* Bounds of the model.  The engine takes its board size as the boardSize  *)
(* option: the engines of the model are built with EngineBoardSize.  The   *)
(* AI player reads BOARD_SIZE itself and is modelled on the full board.    *)
(***************************************************************************)
EngineBoardSize == 5
LineBoardSize == 6
MaxUndoSteps == 2
MaxHistoryLimit == 1
MaxPartialLoads == 1
MaxPlayed == 2
RandomSteps == 3

\* playGame's loop is followed for at most MaxGameMoves moves, and for at
\* most MaxHardGameMoves moves when one of the agents is of the hard tier
MaxGameMoves == 9
MaxHardGameMoves == 3

\* On the page, the cells of the ClickColumns leftmost columns are clicked
\* in reading order, while the board holds fewer than MaxPageStones stones
\* (MaxAIGameStones against the AI, but for one long game); the history
\* panel is used while the history holds at most MaxReviewedMoves moves,
\* and MaxLongReviews times a game on the last MaxReviewedMoves moves of a
\* full history; at most MaxTimers timers of the AI are pending at a time
ClickColumns == 13
MaxPageStones == 53
MaxAIGameStones == 4
MaxReviewedMoves == 3
MaxLongReviews == 1
MaxTimers == 2

Idx == 0 .. (EngineBoardSize - 1)
AIIdx == 0 .. (BOARD_SIZE - 1)
Refs == 1 .. 3
EngineIds == {"e", "c"}

VARIABLES engines, boards, hists, last, partialLoads, onlyMoves, played, ai, call, ui

engineVars == <<engines, boards, hists, last, partialLoads, onlyMoves, played>>

vars == <<engines, boards, hists, last, partialLoads, onlyMoves, played, ai, call, ui>>

(***************************************************************************)
(* Values standing for JavaScript's null.                                  *)
(***************************************************************************)
NoMove == [row |-> -1, col |-> -1, player |-> EMPTY]
NoWin == [sequence |-> <<>>, direction |-> <<0, 0>>]

Cell(r, c) == [row |-> r, col |-> c]
Move(r, c, p) == [row |-> r, col |-> c, player |-> p]

Max(a, b) == IF a >= b THEN a ELSE b
Min(a, b) == IF a <= b THEN a ELSE b

\* const v = ...; Body(v): the value is computed once and then named
With(v, Body(_)) == Body(v)

\* array.length of an array modelled as a function on 0..n-1
Length(a) == Cardinality(DOMAIN a)

(***************************************************************************)
(* Board / line utilities.                                                 *)
(***************************************************************************)
createEmptyBoard(boardSize) ==
    [r \in 0 .. (boardSize - 1) |-> [c \in 0 .. (boardSize - 1) |-> EMPTY]]

isInside(boardSize, row, col) ==
    row >= 0 /\ row < boardSize /\ col >= 0 /\ col < boardSize

RECURSIVE collectLineFrom(_, _, _, _, _, _)
collectLineFrom(board, x, y, dx, dy, player) ==
    IF isInside(Length(board), x, y) /\ board[x][y] = player
    THEN <<Cell(x, y)>> \o collectLineFrom(board, x + dx, y + dy, dx, dy, player)
    ELSE <<>>

collectLine(board, row, col, dx, dy, player) ==
    collectLineFrom(board, row + dx, col + dy, dx, dy, player)

\* faulty variant of directions that tries the row before the column
directionsRowFirst == << <<0, 1>>, <<1, 0>>, <<1, 1>>, <<1, -1>> >>

directions == << <<1, 0>>, <<0, 1>>, <<1, 1>>, <<1, -1>> >>

\* faulty variant of lineThrough that leaves the backward half out
lineThroughForwardOnly(board, row, col, d) ==
    <<Cell(row, col)>> \o collectLine(board, row, col, d[1], d[2], board[row][col])

lineThrough(board, row, col, d) ==
    LET player == board[row][col]
        forward == collectLine(board, row, col, d[1], d[2], player)
        backward == collectLine(board, row, col, -d[1], -d[2], player)
    IN  <<Cell(row, col)>> \o forward \o backward

RECURSIVE firstWinningAxis(_, _, _, _)
firstWinningAxis(board, row, col, i) ==
    IF i > Len(directions) THEN NoWin
    ELSE LET line == lineThrough(board, row, col, directions[i])
         IN  IF Len(line) >= 5
             THEN [sequence |-> line, direction |-> directions[i]]
             ELSE firstWinningAxis(board, row, col, i + 1)

determineWinningSequence(board, row, col) ==
    IF board[row][col] = EMPTY THEN NoWin
    ELSE firstWinningAxis(board, row, col, 1)

checkWin(board, row, col) == determineWinningSequence(board, row, col) # NoWin

checkDraw(board) ==
    \A r \in DOMAIN board : \A c \in DOMAIN board[r] : board[r][c] # EMPTY

\* the inner loop of findWinningSequence: the first stone of the row, from col
\* on, with a winning line
RECURSIVE findWinningSequenceInRow(_, _, _)
findWinningSequenceInRow(board, row, col) ==
    IF col >= Length(board[row]) THEN NoWin
    ELSE IF board[row][col] = EMPTY THEN findWinningSequenceInRow(board, row, col + 1)
    ELSE With(determineWinningSequence(board, row, col),
              LAMBDA result :
                IF result # NoWin THEN result
                ELSE findWinningSequenceInRow(board, row, col + 1))

\* the outer loop: rows from row on
RECURSIVE findWinningSequenceFrom(_, _)
findWinningSequenceFrom(board, row) ==
    IF row >= Length(board) THEN NoWin
    ELSE With(findWinningSequenceInRow(board, row, 0),
              LAMBDA result :
                IF result # NoWin THEN result
                ELSE findWinningSequenceFrom(board, row + 1))

\* faulty variant of findWinningSequence that scans the first row only
findWinningSequenceFirstRowOnly(board) == findWinningSequenceInRow(board, 0, 0)

findWinningSequence(board) == findWinningSequenceFrom(board, 0)

\* faulty variant of getOpponent that answers the player itself
getOpponentSame(player) == player

getOpponent(player) == IF player = BLACK THEN WHITE ELSE BLACK

(***************************************************************************)
(* validateBoardState: throws on a wrong number of rows, a wrong row       *)
(* length or a cell that is not EMPTY/BLACK/WHITE; otherwise returns a     *)
(* fresh copy of the board.                                                *)
(***************************************************************************)
RECURSIVE validateRows(_, _, _)
validateRows(board, boardSize, rowIndex) ==
    IF rowIndex >= Length(board) THEN ""
    ELSE IF Length(board[rowIndex]) # boardSize THEN "Invalid board row length"
    ELSE IF \E c \in DOMAIN board[rowIndex] :
                board[rowIndex][c] \notin {EMPTY, BLACK, WHITE}
    THEN "Invalid cell value"
    ELSE validateRows(board, boardSize, rowIndex + 1)

validateBoardState(board, boardSize) ==
    IF Length(board) # boardSize
    THEN [threw |-> TRUE, error |-> "Invalid board state length", board |-> board]
    ELSE LET error == validateRows(board, boardSize, 0)
         IN  [threw |-> error # "", error |-> error, board |-> board]

(***************************************************************************)
(* The object world: W.eng maps the live engines to their fields,          *)
(* W.boards and W.hists are the heaps of board and history arrays.         *)
(***************************************************************************)
World(eng, bs, hs) == [eng |-> eng, boards |-> bs, hists |-> hs]

boardOf(W, e) == W.boards[W.eng[e].board]
historyOf(W, e) == W.hists[W.eng[e].moveHistory]

SetEngine(W, e, E) ==
    [W EXCEPT !.eng = [x \in (DOMAIN W.eng) \cup {e} |-> IF x = e THEN E ELSE W.eng[x]]]

\* a fresh array: the least reference no live engine holds
newBoardRef(W) ==
    CHOOSE r \in Refs :
        /\ \A x \in DOMAIN W.eng : W.eng[x].board # r
        /\ \A s \in Refs : (\A x \in DOMAIN W.eng : W.eng[x].board # s) => r <= s

newHistoryRef(W) ==
    CHOOSE r \in Refs :
        /\ \A x \in DOMAIN W.eng : W.eng[x].moveHistory # r
        /\ \A s \in Refs : (\A x \in DOMAIN W.eng : W.eng[x].moveHistory # s) => r <= s

\* Addresses are not observable: after each operation the live arrays are
\* renumbered (engine "e" first) and the arrays no engine refers to any more
\* are dropped, which keeps aliasing between engines exactly as it is.
Collect(W) ==
    LET hasC == "c" \in DOMAIN W.eng
        bE == W.eng["e"].board
        hE == W.eng["e"].moveHistory
        bC == IF hasC THEN W.eng["c"].board ELSE bE
        hC == IF hasC THEN W.eng["c"].moveHistory ELSE hE
    IN  [eng |-> [x \in DOMAIN W.eng |->
                    [W.eng[x] EXCEPT
                        !.board = IF W.eng[x].board = bE THEN 1 ELSE 2,
                        !.moveHistory = IF W.eng[x].moveHistory = hE THEN 1 ELSE 2]],
         boards |-> [r \in Refs |->
                    IF r = 1 THEN W.boards[bE]
                    ELSE IF r = 2 /\ bC # bE THEN W.boards[bC]
                    ELSE createEmptyBoard(0)],
         hists |-> [r \in Refs |->
                    IF r = 1 THEN W.hists[hE]
                    ELSE IF r = 2 /\ hC # hE THEN W.hists[hC]
                    ELSE <<>>]]

(***************************************************************************)
(* GomokuEngine.  maxHistory null is modelled as 0 (the code tests it for  *)
(* truthiness).                                                            *)
(***************************************************************************)
reset(W, e) ==
    LET E == W.eng[e]
        b == newBoardRef(W)
        h == newHistoryRef(W)
        E1 == [E EXCEPT !.board = b, !.currentPlayer = E.startingPlayer,
                        !.gameOver = FALSE, !.moveHistory = h,
                        !.lastMove = NoMove, !.winningSequence = <<>>]
    IN  [SetEngine(W, e, E1) EXCEPT
            !.boards[b] = createEmptyBoard(E.boardSize),
            !.hists[h] = <<>>]

\* new GomokuEngine({boardSize, startingPlayer, maxHistory})
construct(W, e, boardSize, startingPlayer, maxHistory) ==
    LET E0 == [boardSize |-> boardSize,
               startingPlayer |-> IF startingPlayer = WHITE THEN WHITE ELSE BLACK,
               maxHistory |-> IF maxHistory > 0 THEN maxHistory ELSE 0,
               board |-> 0, currentPlayer |-> EMPTY, gameOver |-> FALSE,
               moveHistory |-> 0, lastMove |-> NoMove, winningSequence |-> <<>>]
        W0 == [W EXCEPT !.eng = [x \in (DOMAIN W.eng) \ {e} |-> W.eng[x]]]
    IN  reset(SetEngine(W0, e, E0), e)

Invalid(reason) == [status |-> "invalid", reason |-> reason]

\* faulty variant of placeStone that never evicts the oldest history entry
placeStoneNeverEvicting(W, e, row, col) ==
    LET E == W.eng[e]
        board == W.boards[E.board]
        player == E.currentPlayer
        board1 == [board EXCEPT ![row][col] = player]
        move == Move(row, col, player)
        pushed == Append(W.hists[E.moveHistory], move)
        history1 == pushed
        W1 == [W EXCEPT !.boards[E.board] = board1, !.hists[E.moveHistory] = history1]
        winData == determineWinningSequence(board1, row, col)
    IN
    IF winData # NoWin
    THEN [W |-> SetEngine(W1, e, [E EXCEPT !.lastMove = move, !.gameOver = TRUE,
                                           !.winningSequence = winData.sequence]),
          ret |-> [status |-> "win", reason |-> ""]]
    ELSE IF checkDraw(board1)
    THEN [W |-> SetEngine(W1, e, [E EXCEPT !.lastMove = move, !.gameOver = TRUE,
                                           !.winningSequence = <<>>]),
          ret |-> [status |-> "draw", reason |-> ""]]
    ELSE [W |-> SetEngine(W1, e, [E EXCEPT !.lastMove = move,
                                           !.currentPlayer = getOpponent(player),
                                           !.winningSequence = <<>>]),
          ret |-> [status |-> "continue", reason |-> ""]]

\* faulty variant of placeStone that looks for a draw before it looks for a win
placeStoneDrawFirst(W, e, row, col) ==
    LET E == W.eng[e]
        board == W.boards[E.board]
        player == E.currentPlayer
        board1 == [board EXCEPT ![row][col] = player]
        move == Move(row, col, player)
        pushed == Append(W.hists[E.moveHistory], move)
        history1 == IF E.maxHistory # 0 /\ Len(pushed) > E.maxHistory
                    THEN Tail(pushed) ELSE pushed
        W1 == [W EXCEPT !.boards[E.board] = board1, !.hists[E.moveHistory] = history1]
        winData == determineWinningSequence(board1, row, col)
    IN
    IF winData # NoWin /\ ~checkDraw(board1)
    THEN [W |-> SetEngine(W1, e, [E EXCEPT !.lastMove = move, !.gameOver = TRUE,
                                           !.winningSequence = winData.sequence]),
          ret |-> [status |-> "win", reason |-> ""]]
    ELSE IF checkDraw(board1)
    THEN [W |-> SetEngine(W1, e, [E EXCEPT !.lastMove = move, !.gameOver = TRUE,
                                           !.winningSequence = <<>>]),
          ret |-> [status |-> "draw", reason |-> ""]]
    ELSE [W |-> SetEngine(W1, e, [E EXCEPT !.lastMove = move,
                                           !.currentPlayer = getOpponent(player),
                                           !.winningSequence = <<>>]),
          ret |-> [status |-> "continue", reason |-> ""]]

\* applyMove past its three guards: place the stone, record it, look for a win or a draw
placeStone(W, e, row, col) ==
    LET E == W.eng[e]
        board == W.boards[E.board]
        player == E.currentPlayer
        board1 == [board EXCEPT ![row][col] = player]
        move == Move(row, col, player)
        pushed == Append(W.hists[E.moveHistory], move)
        history1 == IF E.maxHistory # 0 /\ Len(pushed) > E.maxHistory
                    THEN Tail(pushed) ELSE pushed
        W1 == [W EXCEPT !.boards[E.board] = board1, !.hists[E.moveHistory] = history1]
        winData == determineWinningSequence(board1, row, col)
    IN
    IF winData # NoWin
    THEN [W |-> SetEngine(W1, e, [E EXCEPT !.lastMove = move, !.gameOver = TRUE,
                                           !.winningSequence = winData.sequence]),
          ret |-> [status |-> "win", reason |-> ""]]
    ELSE IF checkDraw(board1)
    THEN [W |-> SetEngine(W1, e, [E EXCEPT !.lastMove = move, !.gameOver = TRUE,
                                           !.winningSequence = <<>>]),
          ret |-> [status |-> "draw", reason |-> ""]]
    ELSE [W |-> SetEngine(W1, e, [E EXCEPT !.lastMove = move,
                                           !.currentPlayer = getOpponent(player),
                                           !.winningSequence = <<>>]),
          ret |-> [status |-> "continue", reason |-> ""]]

(***************************************************************************)
(* Faulty variants of applyMove, each dropping one of its guards.          *)
(***************************************************************************)
\* without the game-over guard
applyMoveIgnoringGameOver(W, e, row, col) ==
    IF ~isInside(W.eng[e].boardSize, row, col)
    THEN [W |-> W, ret |-> Invalid("out-of-bounds")]
    ELSE IF boardOf(W, e)[row][col] # EMPTY THEN [W |-> W, ret |-> Invalid("occupied")]
    ELSE placeStone(W, e, row, col)

\* coordinates outside the board wrap around instead of being rejected
applyMoveWrappingAround(W, e, row, col) ==
    LET n == W.eng[e].boardSize
        r == row % n
        c == col % n
    IN  IF W.eng[e].gameOver THEN [W |-> W, ret |-> Invalid("game-over")]
        ELSE IF boardOf(W, e)[r][c] # EMPTY THEN [W |-> W, ret |-> Invalid("occupied")]
        ELSE placeStone(W, e, r, c)

\* without the occupancy guard: the stone is overwritten
applyMoveOverwriting(W, e, row, col) ==
    IF W.eng[e].gameOver THEN [W |-> W, ret |-> Invalid("game-over")]
    ELSE IF ~isInside(W.eng[e].boardSize, row, col)
    THEN [W |-> W, ret |-> Invalid("out-of-bounds")]
    ELSE placeStone(W, e, row, col)

applyMove(W, e, row, col) ==
    IF W.eng[e].gameOver THEN [W |-> W, ret |-> Invalid("game-over")]
    ELSE IF ~isInside(W.eng[e].boardSize, row, col)
    THEN [W |-> W, ret |-> Invalid("out-of-bounds")]
    ELSE IF boardOf(W, e)[row][col] # EMPTY THEN [W |-> W, ret |-> Invalid("occupied")]
    ELSE placeStone(W, e, row, col)

\* faulty variant of undoLoop that collects the moves oldest first
RECURSIVE undoLoopOldestFirst(_, _, _, _)
undoLoopOldestFirst(board, history, undone, remaining) ==
    IF remaining > 0 /\ Len(history) > 0
    THEN LET move == history[Len(history)]
         IN  undoLoopOldestFirst([board EXCEPT ![move.row][move.col] = EMPTY],
                                 SubSeq(history, 1, Len(history) - 1),
                                 <<move>> \o undone, remaining - 1)
    ELSE [board |-> board, history |-> history, undone |-> undone]

\* the while loop of undoLastMove: pop, clear the cell, collect
RECURSIVE undoLoop(_, _, _, _)
undoLoop(board, history, undone, remaining) ==
    IF remaining > 0 /\ Len(history) > 0
    THEN LET move == history[Len(history)]
         IN  undoLoop([board EXCEPT ![move.row][move.col] = EMPTY],
                      SubSeq(history, 1, Len(history) - 1),
                      Append(undone, move), remaining - 1)
    ELSE [board |-> board, history |-> history, undone |-> undone]

\* faulty variant of undoLastMove without the early return for steps <= 0
undoLastMoveAlwaysReopening(W, e, steps) ==
    LET E == W.eng[e]
        r == undoLoop(W.boards[E.board], W.hists[E.moveHistory], <<>>, Max(0, steps))
        W1 == [W EXCEPT !.boards[E.board] = r.board, !.hists[E.moveHistory] = r.history]
    IN  [W |-> SetEngine(W1, e, [E EXCEPT !.gameOver = FALSE, !.winningSequence = <<>>]),
         ret |-> r.undone]

\* faulty variant of undoLastMove that reopens the game only when it removed a move
undoLastMoveReopeningOnRemoval(W, e, steps) ==
    LET E == W.eng[e]
        r == undoLoop(W.boards[E.board], W.hists[E.moveHistory], <<>>, Max(0, steps))
        W1 == [W EXCEPT !.boards[E.board] = r.board, !.hists[E.moveHistory] = r.history]
        mostRecent == IF Len(r.history) > 0 THEN r.history[Len(r.history)] ELSE NoMove
    IN  IF Len(r.undone) = 0 THEN [W |-> W, ret |-> <<>>]
        ELSE [W |-> SetEngine(W1, e,
                        [E EXCEPT !.lastMove = mostRecent,
                                  !.currentPlayer = IF mostRecent # NoMove
                                                    THEN getOpponent(mostRecent.player)
                                                    ELSE E.startingPlayer,
                                  !.gameOver = FALSE, !.winningSequence = <<>>]),
              ret |-> r.undone]

undoLastMove(W, e, steps) ==
    LET E == W.eng[e]
        remaining == Max(0, steps)
    IN
    IF remaining = 0 THEN [W |-> W, ret |-> <<>>]
    ELSE
    LET r == undoLoop(W.boards[E.board], W.hists[E.moveHistory], <<>>, remaining)
        W1 == [W EXCEPT !.boards[E.board] = r.board, !.hists[E.moveHistory] = r.history]
        mostRecent == IF Len(r.history) > 0 THEN r.history[Len(r.history)] ELSE NoMove
        E1 == IF Len(r.undone) > 0
              THEN [E EXCEPT !.lastMove = mostRecent,
                             !.currentPlayer = IF mostRecent # NoMove
                                               THEN getOpponent(mostRecent.player)
                                               ELSE E.startingPlayer]
              ELSE E
    IN  [W |-> SetEngine(W1, e, [E1 EXCEPT !.gameOver = FALSE, !.winningSequence = <<>>]),
         ret |-> r.undone]

(***************************************************************************)
(* loadState.  A snapshot is a record; a field the caller left out is      *)
(* absent from its domain and takes the destructuring default.             *)
(***************************************************************************)
normalizeEntry(entry) ==
    Move(entry.row, entry.col, IF entry.player = WHITE THEN WHITE ELSE BLACK)

\* moveHistory.map(...): the error of the first entry that fails, "" when none does
RECURSIVE historyError(_, _, _, _)
historyError(board, boardSize, moveHistory, i) ==
    IF i > Len(moveHistory) THEN ""
    ELSE LET normalized == normalizeEntry(moveHistory[i])
         IN  IF ~isInside(boardSize, normalized.row, normalized.col)
             THEN "Move history entry out of bounds"
             ELSE IF board[normalized.row][normalized.col] # normalized.player
             THEN "Move history entry does not match board state"
             ELSE historyError(board, boardSize, moveHistory, i + 1)

Threw(error) == [threw |-> TRUE, error |-> error]
Returned == [threw |-> FALSE, error |-> ""]

loadState(W, e, state) ==
    LET E == W.eng[e]
        currentPlayer == IF "currentPlayer" \in DOMAIN state
                         THEN state.currentPlayer ELSE E.startingPlayer
        moveHistory == IF "moveHistory" \in DOMAIN state THEN state.moveHistory ELSE <<>>
        startingPlayer == IF "startingPlayer" \in DOMAIN state
                          THEN state.startingPlayer ELSE E.startingPlayer
    IN
    IF "board" \notin DOMAIN state THEN [W |-> W, ret |-> Threw("Board state is required")]
    ELSE
    LET validated == validateBoardState(state.board, E.boardSize) IN
    IF validated.threw THEN [W |-> W, ret |-> Threw(validated.error)]
    ELSE
    LET b == newBoardRef(W)
        board == validated.board
        E1 == [E EXCEPT !.board = b,
                        !.startingPlayer = IF startingPlayer = WHITE THEN WHITE ELSE BLACK,
                        !.currentPlayer = IF currentPlayer = WHITE THEN WHITE ELSE BLACK]
        W1 == [SetEngine(W, e, E1) EXCEPT !.boards[b] = board]
        error == historyError(board, E.boardSize, moveHistory, 1)
    IN
    IF error # "" THEN [W |-> W1, ret |-> Threw(error)]
    ELSE
    LET mapped == [i \in 1 .. Len(moveHistory) |-> normalizeEntry(moveHistory[i])]
        history == IF E.maxHistory # 0 /\ Len(mapped) > E.maxHistory
                   THEN SubSeq(mapped, Len(mapped) - E.maxHistory + 1, Len(mapped))
                   ELSE mapped
        h == newHistoryRef(W1)
        winData == findWinningSequence(board)
        E2 == [E1 EXCEPT
                !.moveHistory = h,
                !.lastMove = IF Len(history) > 0 THEN history[Len(history)] ELSE NoMove,
                !.gameOver = (winData # NoWin) \/ checkDraw(board),
                !.winningSequence = IF winData # NoWin THEN winData.sequence ELSE <<>>]
    IN  [W |-> [SetEngine(W1, e, E2) EXCEPT !.hists[h] = history], ret |-> Returned]

(***************************************************************************)
(* getAvailableMoves.                                                      *)
(***************************************************************************)
\* faulty variant of hasNeighboringStone that looks at the four orthogonal
\* neighbours only
hasOrthogonalStone(board, row, col) ==
    \E d \in {<<-1, 0>>, <<1, 0>>, <<0, -1>>, <<0, 1>>} :
        /\ isInside(Length(board), row + d[1], col + d[2])
        /\ board[row + d[1]][col + d[2]] # EMPTY

hasNeighboringStone(board, row, col) ==
    \E dx \in (-1) .. 1 : \E dy \in (-1) .. 1 :
        /\ ~(dx = 0 /\ dy = 0)
        /\ isInside(Length(board), row + dx, col + dy)
        /\ board[row + dx][col + dy] # EMPTY

\* the inner loop of getAvailableMoves: what one row adds to moves
availableInRow(board, boardSize, row, vicinityOnly) ==
    SelectSeq([i \in 1 .. boardSize |-> Cell(row, i - 1)],
              LAMBDA cell :
                /\ board[cell.row][cell.col] = EMPTY
                /\ (~vicinityOnly \/ hasNeighboringStone(board, cell.row, cell.col)))

RECURSIVE availableFrom(_, _, _, _)
availableFrom(board, boardSize, row, vicinityOnly) ==
    IF row >= boardSize THEN <<>>
    ELSE availableInRow(board, boardSize, row, vicinityOnly)
            \o availableFrom(board, boardSize, row + 1, vicinityOnly)

RECURSIVE getAvailableMoves(_, _, _)
getAvailableMoves(W, e, vicinityOnly) ==
    LET E == W.eng[e]
        board == W.boards[E.board]
        moves == availableFrom(board, E.boardSize, 0, vicinityOnly)
        hasStone == \E row \in 0 .. (E.boardSize - 1) : \E col \in 0 .. (E.boardSize - 1) :
                        board[row][col] # EMPTY
        center == E.boardSize \div 2
    IN  IF ~hasStone THEN <<Cell(center, center)>>
        ELSE IF vicinityOnly /\ moves = <<>> THEN getAvailableMoves(W, e, FALSE)
        ELSE moves

toJSON(W, e) ==
    [board |-> boardOf(W, e),
     currentPlayer |-> W.eng[e].currentPlayer,
     moveHistory |-> historyOf(W, e),
     startingPlayer |-> W.eng[e].startingPlayer,
     gameOver |-> W.eng[e].gameOver,
     winningSequence |-> W.eng[e].winningSequence]

\* drop an engine whose construction did not complete
Without(W, c) == [W EXCEPT !.eng = [x \in (DOMAIN W.eng) \ {c} |-> W.eng[x]]]

\* this.clone(): the new engine is c
clone(W, e, c) ==
    LET E == W.eng[e]
        W0 == construct(W, c, E.boardSize, E.startingPlayer, E.maxHistory)
        loaded == loadState(W0, c, [board |-> boardOf(W, e),
                                     currentPlayer |-> E.currentPlayer,
                                     moveHistory |-> historyOf(W, e),
                                     startingPlayer |-> E.startingPlayer])
    IN  IF loaded.ret.threw THEN [W |-> Without(loaded.W, c), ret |-> loaded.ret]
        ELSE [W |-> SetEngine(loaded.W, c,
                        [loaded.W.eng[c] EXCEPT !.gameOver = E.gameOver,
                                                !.winningSequence = E.winningSequence]),
              ret |-> Returned]

\* GomokuEngine.fromState(state, {maxHistory}): the new engine is c
fromState(W, c, state, maxHistory) ==
    LET startingPlayer == IF "startingPlayer" \in DOMAIN state
                          THEN state.startingPlayer ELSE BLACK
        W0 == construct(W, c, Length(state.board), startingPlayer, maxHistory)
        loaded == loadState(W0, c, state)
    IN  IF loaded.ret.threw THEN [W |-> Without(loaded.W, c), ret |-> loaded.ret]
        ELSE loaded

(***************************************************************************)
(* AIPlayer.  An AI player is a record of its fields: difficulty,          *)
(* playerColor and random, where random = k stands for a random() that     *)
(* returns k / RandomSteps.  Every method that writes to the board it was  *)
(* handed returns the board along with its value.                          *)
(***************************************************************************)
EASY_CANDIDATE_LIMIT == 12
EASY_TOP_CHOICES == 3
MEDIUM_CANDIDATE_LIMIT == 12
MEDIUM_RESPONSE_LIMIT == 6
HARD_CANDIDATE_LIMIT == 8
HARD_SEARCH_DEPTH == 3
WIN_SCORE == 1000000

PATTERN_SCORES ==
    [five |-> WIN_SCORE, openFour |-> 60000, semiOpenFour |-> 15000,
     openThree |-> 7000, semiOpenThree |-> 2000, openTwo |-> 800, semiOpenTwo |-> 250]

\* larger than any board score
Infinity == 1000 * WIN_SCORE

\* null where a move is expected
NoCell == [row |-> -1, col |-> -1]

AIPlayer_isInside(row, col) ==
    row >= 0 /\ row < BOARD_SIZE /\ col >= 0 /\ col < BOARD_SIZE

isEmptyCell(board, row, col) == AIPlayer_isInside(row, col) /\ board[row][col] = EMPTY

getOpponentColor(player) == IF player = BLACK THEN WHITE ELSE BLACK

RECURSIVE countStonesFrom(_, _, _, _, _, _)
countStonesFrom(board, x, y, dx, dy, player) ==
    IF AIPlayer_isInside(x, y) /\ board[x][y] = player
    THEN 1 + countStonesFrom(board, x + dx, y + dy, dx, dy, player)
    ELSE 0

countStonesInDirection(board, row, col, dx, dy, player) ==
    countStonesFrom(board, row + dx, col + dy, dx, dy, player)

checkWinningMove(board, row, col, player) ==
    \E i \in 1 .. Len(directions) :
        1 + countStonesInDirection(board, row, col, directions[i][1], directions[i][2], player)
          + countStonesInDirection(board, row, col, -directions[i][1], -directions[i][2], player)
            >= 5

\* the inner loop of findWinningMove: the first empty cell of the row, from
\* col on, that completes five for player
RECURSIVE findWinningMoveInRow(_, _, _, _)
findWinningMoveInRow(board, player, row, col) ==
    IF col >= BOARD_SIZE THEN NoCell
    ELSE IF board[row][col] = EMPTY /\ checkWinningMove(board, row, col, player)
    THEN Cell(row, col)
    ELSE findWinningMoveInRow(board, player, row, col + 1)

\* the outer loop: rows from row on
RECURSIVE findWinningMoveFrom(_, _, _)
findWinningMoveFrom(board, player, row) ==
    IF row >= BOARD_SIZE THEN NoCell
    ELSE With(findWinningMoveInRow(board, player, row, 0),
              LAMBDA move :
                IF move # NoCell THEN move
                ELSE findWinningMoveFrom(board, player, row + 1))

\* faulty variant of findWinningMove scanning column by column
RECURSIVE findWinningMoveInColumn(_, _, _, _)
findWinningMoveInColumn(board, player, row, col) ==
    IF row >= BOARD_SIZE THEN NoCell
    ELSE IF board[row][col] = EMPTY /\ checkWinningMove(board, row, col, player)
    THEN Cell(row, col)
    ELSE findWinningMoveInColumn(board, player, row + 1, col)

RECURSIVE findWinningMoveByColumn(_, _, _)
findWinningMoveByColumn(board, player, col) ==
    IF col >= BOARD_SIZE THEN NoCell
    ELSE With(findWinningMoveInColumn(board, player, 0, col),
              LAMBDA move :
                IF move # NoCell THEN move
                ELSE findWinningMoveByColumn(board, player, col + 1))

findWinningMoveColumnMajor(board, player) == findWinningMoveByColumn(board, player, 0)

findWinningMove(board, player) == findWinningMoveFrom(board, player, 0)

scorePattern(length, backwardOpen, forwardOpen) ==
    LET openEnds == (IF backwardOpen THEN 1 ELSE 0) + (IF forwardOpen THEN 1 ELSE 0)
    IN  IF length >= 5 THEN PATTERN_SCORES.five
        ELSE IF openEnds = 0 THEN 0
        ELSE IF length = 4
        THEN (IF openEnds = 2 THEN PATTERN_SCORES.openFour ELSE PATTERN_SCORES.semiOpenFour)
        ELSE IF length = 3
        THEN (IF openEnds = 2 THEN PATTERN_SCORES.openThree ELSE PATTERN_SCORES.semiOpenThree)
        ELSE IF length = 2
        THEN (IF openEnds = 2 THEN PATTERN_SCORES.openTwo ELSE PATTERN_SCORES.semiOpenTwo)
        ELSE 0

\* faulty variant of scoreRun that scores a run from each of its stones
scoreRunFromEveryStone(board, row, col, d, player) ==
    LET length == 1 + countStonesInDirection(board, row, col, d[1], d[2], player)
        forwardOpen == isEmptyCell(board, row + length * d[1], col + length * d[2])
        backwardOpen == isEmptyCell(board, row - d[1], col - d[2])
    IN  scorePattern(length, backwardOpen, forwardOpen)

\* the score of the run of player's stones that starts at (row, col) along d
scoreRun(board, row, col, d, player) ==
    IF AIPlayer_isInside(row - d[1], col - d[2]) /\ board[row - d[1]][col - d[2]] = player
    THEN 0
    ELSE LET length == 1 + countStonesInDirection(board, row, col, d[1], d[2], player)
             forwardOpen == isEmptyCell(board, row + length * d[1], col + length * d[2])
             backwardOpen == isEmptyCell(board, row - d[1], col - d[2])
         IN  scorePattern(length, backwardOpen, forwardOpen)

scoreCell(board, row, col, player) ==
    IF board[row][col] # player THEN 0
    ELSE scoreRun(board, row, col, directions[1], player)
       + scoreRun(board, row, col, directions[2], player)
       + scoreRun(board, row, col, directions[3], player)
       + scoreRun(board, row, col, directions[4], player)

RECURSIVE scoreRow(_, _, _, _)
scoreRow(board, row, col, player) ==
    IF col >= BOARD_SIZE THEN 0
    ELSE scoreCell(board, row, col, player) + scoreRow(board, row, col + 1, player)

RECURSIVE scoreRows(_, _, _)
scoreRows(board, row, player) ==
    IF row >= BOARD_SIZE THEN 0
    ELSE scoreRow(board, row, 0, player) + scoreRows(board, row + 1, player)

scoreLinesForPlayer(board, player) == scoreRows(board, 0, player)

\* faulty variant of evaluateBoard that counts the opponent's lines twice
evaluateBoardOpponentTwice(board, perspective) ==
    scoreLinesForPlayer(board, perspective)
        - 2 * scoreLinesForPlayer(board, getOpponentColor(perspective))

\* faulty variant of evaluateBoard that leaves the opponent's lines out
evaluateBoardOwnOnly(board, perspective) == scoreLinesForPlayer(board, perspective)

evaluateBoard(board, perspective) ==
    scoreLinesForPlayer(board, perspective)
        - scoreLinesForPlayer(board, getOpponentColor(perspective))

\* writes player to the cell, scores the board, writes EMPTY to the cell
evaluateMove(board, row, col, player, perspective) ==
    [score |-> evaluateBoard([board EXCEPT ![row][col] = player], perspective),
     board |-> [board EXCEPT ![row][col] = EMPTY]]

\* the empty cells of one row, left to right
emptyCellsOfRow(board, row) ==
    SelectSeq([i \in 1 .. BOARD_SIZE |-> Cell(row, i - 1)],
              LAMBDA cell : board[cell.row][cell.col] = EMPTY)

RECURSIVE findEmptyCellsFrom(_, _)
findEmptyCellsFrom(board, row) ==
    IF row >= BOARD_SIZE THEN <<>>
    ELSE emptyCellsOfRow(board, row) \o findEmptyCellsFrom(board, row + 1)

findEmptyCells(board) == findEmptyCellsFrom(board, 0)

\* Math.floor(this.random() * length)
randomIndex(self, length) == (self.random * length) \div RandomSteps

makeRandomMove(board, self) ==
    LET emptyCells == findEmptyCells(board)
    IN  IF Len(emptyCells) = 0 THEN NoCell
        ELSE emptyCells[randomIndex(self, Len(emptyCells)) + 1]

neighbourDirections ==
    << <<-1, -1>>, <<-1, 0>>, <<-1, 1>>, <<0, -1>>, <<0, 1>>, <<1, -1>>, <<1, 0>>, <<1, 1>> >>

InSeq(x, seq) == \E i \in 1 .. Len(seq) : seq[i] = x

\* faulty variant of the inner loop that does not test the neighbour for
\* emptiness
RECURSIVE addNeighboursOccupiedToo(_, _, _, _, _)
addNeighboursOccupiedToo(board, row, col, i, potentialMoves) ==
    IF i > Len(neighbourDirections) THEN potentialMoves
    ELSE LET newRow == row + neighbourDirections[i][1]
             newCol == col + neighbourDirections[i][2]
         IN  IF AIPlayer_isInside(newRow, newCol)
                /\ ~InSeq(Cell(newRow, newCol), potentialMoves)
             THEN addNeighboursOccupiedToo(board, row, col, i + 1,
                                           Append(potentialMoves, Cell(newRow, newCol)))
             ELSE addNeighboursOccupiedToo(board, row, col, i + 1, potentialMoves)

\* the inner loop of findPotentialMoves: Set.add keeps the first insertion
RECURSIVE addNeighbours(_, _, _, _, _)
addNeighbours(board, row, col, i, potentialMoves) ==
    IF i > Len(neighbourDirections) THEN potentialMoves
    ELSE LET newRow == row + neighbourDirections[i][1]
             newCol == col + neighbourDirections[i][2]
         IN  IF isEmptyCell(board, newRow, newCol)
                /\ ~InSeq(Cell(newRow, newCol), potentialMoves)
             THEN addNeighbours(board, row, col, i + 1,
                                Append(potentialMoves, Cell(newRow, newCol)))
             ELSE addNeighbours(board, row, col, i + 1, potentialMoves)

\* the stones of one row, left to right
RECURSIVE addNeighboursOfRow(_, _, _, _)
addNeighboursOfRow(board, row, col, potentialMoves) ==
    IF col >= BOARD_SIZE THEN potentialMoves
    ELSE IF board[row][col] = EMPTY
    THEN addNeighboursOfRow(board, row, col + 1, potentialMoves)
    ELSE LET added == addNeighbours(board, row, col, 1, potentialMoves)
         IN  IF Len(added) = Len(potentialMoves)
             THEN addNeighboursOfRow(board, row, col + 1, potentialMoves)
             ELSE addNeighboursOfRow(board, row, col + 1, added)

RECURSIVE findPotentialMovesFrom(_, _, _)
findPotentialMovesFrom(board, row, potentialMoves) ==
    IF row >= BOARD_SIZE THEN potentialMoves
    ELSE LET added == addNeighboursOfRow(board, row, 0, potentialMoves)
         IN  IF Len(added) = Len(potentialMoves)
             THEN findPotentialMovesFrom(board, row + 1, potentialMoves)
             ELSE findPotentialMovesFrom(board, row + 1, added)

findPotentialMoves(board) == findPotentialMovesFrom(board, 0, <<>>)

\* the board after evaluateMove has run on the first n candidates: each of
\* their cells has been written EMPTY
evaluatedBoard(board, candidates, n) ==
    [row \in DOMAIN board |-> [col \in DOMAIN board[row] |->
        IF \E k \in 1 .. n : candidates[k].row = row /\ candidates[k].col = col
        THEN EMPTY ELSE board[row][col]]]

\* candidates.map(move => ({row, col, score: evaluateMove(...)}))
scoreCandidates(board, candidates, player, perspective) ==
    [scored |-> [i \in 1 .. Len(candidates) |->
                    [row |-> candidates[i].row, col |-> candidates[i].col,
                     score |-> evaluateMove(evaluatedBoard(board, candidates, i - 1),
                                            candidates[i].row, candidates[i].col,
                                            player, perspective).score]],
     board |-> evaluatedBoard(board, candidates, Len(candidates))]

\* faulty variant of insertByScore that sorts ascending
insertByScoreAscending(sorted, x) ==
    LET k == Cardinality({j \in 1 .. Len(sorted) : sorted[j].score <= x.score})
    IN  SubSeq(sorted, 1, k) \o <<x>> \o SubSeq(sorted, k + 1, Len(sorted))

\* Array.prototype.sort with (a, b) => b.score - a.score: stable, descending
insertByScore(sorted, x) ==
    LET k == Cardinality({j \in 1 .. Len(sorted) : sorted[j].score >= x.score})
    IN  SubSeq(sorted, 1, k) \o <<x>> \o SubSeq(sorted, k + 1, Len(sorted))

\* the first n entries of scored, sorted
RECURSIVE sortByScore(_, _)
sortByScore(scored, n) ==
    IF n = 0 THEN <<>>
    ELSE insertByScore(sortByScore(scored, n - 1), scored[n])

rankCandidates(board, candidates, player, perspective) ==
    With(scoreCandidates(board, candidates, player, perspective),
         LAMBDA r : [board |-> r.board, ranked |-> sortByScore(r.scored, Len(r.scored))])

\* faulty variant of prepareCandidates that always takes the centre fallback
prepareCandidatesCentreOnly(board, limit, player, perspective) ==
    With(rankCandidates(board, <<Cell(BOARD_SIZE \div 2, BOARD_SIZE \div 2)>>,
                        player, perspective),
         LAMBDA r : [board |-> r.board, ranked |-> r.ranked])

prepareCandidates(board, limit, player, perspective) ==
    With(findPotentialMoves(board),
         LAMBDA potentialMoves :
    With(rankCandidates(board,
                        IF Len(potentialMoves) = 0
                        THEN <<Cell(BOARD_SIZE \div 2, BOARD_SIZE \div 2)>>
                        ELSE potentialMoves,
                        player, perspective),
         LAMBDA r :
            [board |-> r.board,
             ranked |-> IF limit # 0 /\ Len(r.ranked) > limit
                        THEN SubSeq(r.ranked, 1, limit) ELSE r.ranked]))

prepareCandidatesForPlayer(board, player, limit, self) ==
    With(prepareCandidates(board, limit, player, self.playerColor),
         LAMBDA r :
            [board |-> r.board,
             ranked |-> [i \in 1 .. Len(r.ranked) |-> Cell(r.ranked[i].row, r.ranked[i].col)]])

\* the metrics object of one makeMove call, as far as the search writes it
\* (createMetrics and the head of makeHardMove).  The code counts only when
\* a telemetry sink is configured; the counters influence no decision, so
\* the model always counts.  randomCalls counts the calls of this.random()
\* and restored tells whether every minimax call so far returned with the
\* board it was entered with (a call at depth 0 touches no cell): both are
\* history fields, not in the code.
NoMetrics ==
    [decision |-> "pending", nodesEvaluated |-> 0, maxDepthReached |-> 0,
     maxBranchingFactor |-> 0, prunedBranches |-> 0, randomCalls |-> 0, restored |-> TRUE]

\* what a tier returns: the move, the board as the tier leaves it, the metrics
Chosen(board, move, decision, metrics) ==
    [board |-> board, move |-> move, metrics |-> [metrics EXCEPT !.decision = decision]]

\* makeRandomMove consults random() once when an empty cell exists
afterRandomMove(board, metrics) ==
    IF Len(findEmptyCells(board)) = 0 THEN metrics
    ELSE [metrics EXCEPT !.randomCalls = @ + 1]

\* the common head of the three tiers: the winning move, then the blocking move
winOrBlock(board, self) ==
    With(findWinningMove(board, self.playerColor),
         LAMBDA winningMove :
            IF winningMove # NoCell THEN [move |-> winningMove, decision |-> "immediate-win"]
            ELSE [move |-> findWinningMove(board, getOpponentColor(self.playerColor)),
                  decision |-> "block-threat"])

makeEasyMove(board, self) ==
    With(winOrBlock(board, self),
         LAMBDA forced :
    IF forced.move # NoCell THEN Chosen(board, forced.move, forced.decision, NoMetrics)
    ELSE
    With(prepareCandidates(board, EASY_CANDIDATE_LIMIT, self.playerColor, self.playerColor),
         LAMBDA r :
            IF Len(r.ranked) > 0
            THEN LET selection == SubSeq(r.ranked, 1, Min(EASY_TOP_CHOICES, Len(r.ranked)))
                     choice == selection[randomIndex(self, Len(selection)) + 1]
                 IN  Chosen(r.board, Cell(choice.row, choice.col), "candidate",
                            [NoMetrics EXCEPT !.randomCalls = 1])
            ELSE Chosen(r.board, makeRandomMove(r.board, self), "random-fallback",
                        afterRandomMove(r.board, NoMetrics))))

\* the loop of makeMediumMove over the opponent's replies
RECURSIVE worstReplyOver(_, _, _, _, _, _)
worstReplyOver(board, opponentReplies, i, opponent, self, worstReply) ==
    IF i > Len(opponentReplies) THEN [board |-> board, score |-> worstReply]
    ELSE
    With(evaluateMove(board, opponentReplies[i].row, opponentReplies[i].col,
                      opponent, self.playerColor),
         LAMBDA r :
            worstReplyOver(r.board, opponentReplies, i + 1, opponent, self,
                           Min(worstReply, r.score)))

\* the replies branch of makeMediumMove's loop body, on the board with the
\* candidate placed
worstReplyScore(placed, self) ==
    With(prepareCandidatesForPlayer(placed, getOpponentColor(self.playerColor),
                                    MEDIUM_RESPONSE_LIMIT, self),
         LAMBDA replies :
            IF Len(replies.ranked) > 0
            THEN worstReplyOver(replies.board, replies.ranked, 1,
                                getOpponentColor(self.playerColor), self, Infinity)
            ELSE [board |-> replies.board,
                  score |-> evaluateBoard(placed, self.playerColor)])

\* the body of makeMediumMove's loop for one candidate, up to board[row][col] = EMPTY
scoreMediumCandidate(board, row, col, self) ==
    LET placed == [board EXCEPT ![row][col] = self.playerColor]
    IN
    IF checkWinningMove(placed, row, col, self.playerColor)
    THEN [board |-> [placed EXCEPT ![row][col] = EMPTY], score |-> WIN_SCORE]
    ELSE
    With(worstReplyScore(placed, self),
         LAMBDA worst :
            [board |-> [worst.board EXCEPT ![row][col] = EMPTY], score |-> worst.score])

\* makeMediumMove's loop with score >= bestScore as its comparison
RECURSIVE mediumLoopLastBest(_, _, _, _, _, _)
mediumLoopLastBest(board, candidates, i, self, bestScore, bestMove) ==
    IF i > Len(candidates) THEN [board |-> board, bestScore |-> bestScore, bestMove |-> bestMove]
    ELSE
    With(scoreMediumCandidate(board, candidates[i].row, candidates[i].col, self),
         LAMBDA r :
            IF r.score >= bestScore
            THEN mediumLoopLastBest(r.board, candidates, i + 1, self, r.score,
                                    Cell(candidates[i].row, candidates[i].col))
            ELSE mediumLoopLastBest(r.board, candidates, i + 1, self, bestScore, bestMove))

RECURSIVE mediumLoop(_, _, _, _, _, _)
mediumLoop(board, candidates, i, self, bestScore, bestMove) ==
    IF i > Len(candidates) THEN [board |-> board, bestScore |-> bestScore, bestMove |-> bestMove]
    ELSE
    With(scoreMediumCandidate(board, candidates[i].row, candidates[i].col, self),
         LAMBDA r :
            IF r.score > bestScore
            THEN mediumLoop(r.board, candidates, i + 1, self, r.score,
                            Cell(candidates[i].row, candidates[i].col))
            ELSE mediumLoop(r.board, candidates, i + 1, self, bestScore, bestMove))

\* faulty variant of makeMediumMove that plays a random empty cell when no
\* move is forced
makeMediumMoveAtRandom(board, self) ==
    With(winOrBlock(board, self),
         LAMBDA forced :
    IF forced.move # NoCell THEN Chosen(board, forced.move, forced.decision, NoMetrics)
    ELSE Chosen(board, makeRandomMove(board, self), "candidate",
                afterRandomMove(board, NoMetrics)))

makeMediumMove(board, self) ==
    With(winOrBlock(board, self),
         LAMBDA forced :
    IF forced.move # NoCell THEN Chosen(board, forced.move, forced.decision, NoMetrics)
    ELSE
    With(prepareCandidates(board, MEDIUM_CANDIDATE_LIMIT, self.playerColor, self.playerColor),
         LAMBDA c :
    IF Len(c.ranked) = 0
    THEN Chosen(c.board, makeRandomMove(c.board, self), "random-fallback",
                afterRandomMove(c.board, NoMetrics))
    ELSE
    With(mediumLoop(c.board, c.ranked, 1, self, -Infinity, NoCell),
         LAMBDA r :
            IF r.bestMove # NoCell THEN Chosen(r.board, r.bestMove, "candidate", NoMetrics)
            ELSE Chosen(r.board, makeRandomMove(r.board, self), "random-fallback",
                        afterRandomMove(r.board, NoMetrics)))))

RECURSIVE minimax(_, _, _, _, _, _, _, _)
\* faulty variant of minimaxLoop that breaks after its first candidate whatever the window
RECURSIVE minimaxLoopFirstChild(_, _, _, _, _, _, _, _, _, _, _)
minimaxLoopFirstChild(board, depth, maximizingPlayer, alpha, beta, candidates, i, best, self, currentDepth, metrics) ==
    IF i > Len(candidates) THEN [board |-> board, score |-> best, metrics |-> metrics]
    ELSE
    LET current == IF maximizingPlayer THEN self.playerColor
                   ELSE getOpponentColor(self.playerColor)
        row == candidates[i].row
        col == candidates[i].col
        placed == [board EXCEPT ![row][col] = current]
    IN
    With(IF checkWinningMove(placed, row, col, current)
         THEN [board |-> placed,
               score |-> IF maximizingPlayer THEN WIN_SCORE ELSE -WIN_SCORE,
               metrics |-> metrics]
         ELSE minimax(placed, depth - 1, ~maximizingPlayer, alpha, beta, self,
                      currentDepth + 1, metrics),
         LAMBDA r :
    With([board |-> [r.board EXCEPT ![row][col] = EMPTY],
          best |-> IF maximizingPlayer THEN Max(best, r.score) ELSE Min(best, r.score),
          alpha |-> IF maximizingPlayer THEN Max(alpha, r.score) ELSE alpha,
          beta |-> IF maximizingPlayer THEN beta ELSE Min(beta, r.score)],
         LAMBDA n :
            IF n.beta <= n.alpha \/ i >= 1
            THEN [board |-> n.board, score |-> n.best,
                  metrics |-> [r.metrics EXCEPT !.prunedBranches = @ + 1]]
            ELSE minimaxLoopFirstChild(n.board, depth, maximizingPlayer, n.alpha, n.beta,
                                       candidates, i + 1, n.best, self, currentDepth,
                                       r.metrics)))

RECURSIVE minimaxLoop(_, _, _, _, _, _, _, _, _, _, _)
\* the for loop of minimax from candidate i on, with its break
minimaxLoop(board, depth, maximizingPlayer, alpha, beta, candidates, i, best, self, currentDepth, metrics) ==
    IF i > Len(candidates) THEN [board |-> board, score |-> best, metrics |-> metrics]
    ELSE
    LET current == IF maximizingPlayer THEN self.playerColor
                   ELSE getOpponentColor(self.playerColor)
        row == candidates[i].row
        col == candidates[i].col
        placed == [board EXCEPT ![row][col] = current]
    IN
    With(IF checkWinningMove(placed, row, col, current)
         THEN [board |-> placed,
               score |-> IF maximizingPlayer THEN WIN_SCORE ELSE -WIN_SCORE,
               metrics |-> metrics]
         ELSE minimax(placed, depth - 1, ~maximizingPlayer, alpha, beta, self,
                      currentDepth + 1, metrics),
         LAMBDA r :
    With([board |-> [r.board EXCEPT ![row][col] = EMPTY],
          best |-> IF maximizingPlayer THEN Max(best, r.score) ELSE Min(best, r.score),
          alpha |-> IF maximizingPlayer THEN Max(alpha, r.score) ELSE alpha,
          beta |-> IF maximizingPlayer THEN beta ELSE Min(beta, r.score)],
         LAMBDA n :
            \* alpha >= beta when maximizing, beta <= alpha otherwise: break
            IF n.beta <= n.alpha
            THEN [board |-> n.board, score |-> n.best,
                  metrics |-> [r.metrics EXCEPT !.prunedBranches = @ + 1]]
            ELSE minimaxLoop(n.board, depth, maximizingPlayer, n.alpha, n.beta,
                             candidates, i + 1, n.best, self, currentDepth, r.metrics)))

minimax(board, depth, maximizingPlayer, alpha, beta, self, currentDepth, metrics) ==
    With([metrics EXCEPT !.nodesEvaluated = @ + 1,
                         !.maxDepthReached = Max(@, currentDepth)],
         LAMBDA counted :
    IF depth = 0
    THEN [board |-> board, score |-> evaluateBoard(board, self.playerColor),
          metrics |-> counted]
    ELSE
    With(prepareCandidatesForPlayer(board,
                                    IF maximizingPlayer THEN self.playerColor
                                    ELSE getOpponentColor(self.playerColor),
                                    HARD_CANDIDATE_LIMIT, self),
         LAMBDA c :
    IF Len(c.ranked) = 0
    THEN [board |-> c.board, score |-> evaluateBoard(c.board, self.playerColor),
          metrics |-> [counted EXCEPT !.restored = @ /\ c.board = board]]
    ELSE
    With(minimaxLoop(c.board, depth, maximizingPlayer, alpha, beta, c.ranked, 1,
                     IF maximizingPlayer THEN -Infinity ELSE Infinity, self, currentDepth,
                     [counted EXCEPT !.maxBranchingFactor = Max(@, Len(c.ranked))]),
         LAMBDA r :
            IF r.score = Infinity \/ r.score = -Infinity
            THEN [board |-> r.board, score |-> evaluateBoard(r.board, self.playerColor),
                  metrics |-> [r.metrics EXCEPT !.restored = @ /\ r.board = board]]
            ELSE [r EXCEPT !.metrics.restored = @ /\ r.board = board])))

RECURSIVE hardLoop(_, _, _, _, _, _, _)
hardLoop(board, candidates, i, self, bestScore, bestMove, metrics) ==
    IF i > Len(candidates)
    THEN [board |-> board, bestScore |-> bestScore, bestMove |-> bestMove,
          metrics |-> metrics]
    ELSE
    LET row == candidates[i].row
        col == candidates[i].col
        placed == [board EXCEPT ![row][col] = self.playerColor]
    IN
    With(IF checkWinningMove(placed, row, col, self.playerColor)
         THEN [board |-> placed, score |-> WIN_SCORE, metrics |-> metrics]
         ELSE minimax(placed, HARD_SEARCH_DEPTH - 1, FALSE, -Infinity, Infinity, self,
                      1, metrics),
         LAMBDA r :
            IF r.score > bestScore
            THEN hardLoop([r.board EXCEPT ![row][col] = EMPTY], candidates, i + 1, self,
                          r.score, Cell(row, col), r.metrics)
            ELSE hardLoop([r.board EXCEPT ![row][col] = EMPTY], candidates, i + 1, self,
                          bestScore, bestMove, r.metrics))

makeHardMove(board, self) ==
    With(winOrBlock(board, self),
         LAMBDA forced :
    IF forced.move # NoCell THEN Chosen(board, forced.move, forced.decision, NoMetrics)
    ELSE
    With(prepareCandidates(board, HARD_CANDIDATE_LIMIT, self.playerColor, self.playerColor),
         LAMBDA c :
    IF Len(c.ranked) = 0
    THEN Chosen(c.board, makeRandomMove(c.board, self), "random-fallback",
                afterRandomMove(c.board, NoMetrics))
    ELSE
    With(hardLoop(c.board, c.ranked, 1, self, -Infinity, NoCell, NoMetrics),
         LAMBDA r :
            IF r.bestMove # NoCell THEN Chosen(r.board, r.bestMove, "search", r.metrics)
            ELSE With(makeMediumMove(r.board, self),
                      LAMBDA m :
                        Chosen(m.board, m.move, "medium-fallback",
                               [r.metrics EXCEPT !.randomCalls = m.metrics.randomCalls])))))

\* faulty variant of emitTelemetry without the try/catch around the sink
emitTelemetryUncaught(self, payload) ==
    IF self.telemetry = "none" THEN [events |-> <<>>, threw |-> FALSE]
    ELSE [events |-> <<payload>>, threw |-> self.telemetry = "throws"]

\* emitTelemetry(metrics): self.telemetry is "none" (no sink), "ok" (a sink
\* that returns) or "throws" (a sink that throws).  events lists the
\* payloads the sink was called with; the catch swallows what it throws.
emitTelemetry(self, payload) ==
    IF self.telemetry = "none" THEN [events |-> <<>>, threw |-> FALSE]
    ELSE [events |-> <<payload>>, threw |-> FALSE]

\* makeMove(board): threw tells whether it threw; board is the caller's
\* array when it returns; events are the calls of the telemetry sink
makeMove(board, self) ==
    IF Length(board) # BOARD_SIZE \/ Length(board[0]) # BOARD_SIZE
    THEN [threw |-> TRUE, error |-> "Invalid board state", board |-> board,
          move |-> NoCell, events |-> <<>>, metrics |-> NoMetrics]
    ELSE IF self.difficulty \notin {"easy", "medium", "hard"}
    THEN [threw |-> TRUE, error |-> "Invalid difficulty level", board |-> board,
          move |-> NoCell, events |-> <<>>, metrics |-> NoMetrics]
    ELSE With(IF self.difficulty = "easy" THEN makeEasyMove(board, self)
              ELSE IF self.difficulty = "medium" THEN makeMediumMove(board, self)
              ELSE makeHardMove(board, self),
              LAMBDA r :
                IF self.telemetry = "none"
                THEN [threw |-> FALSE, error |-> "", board |-> r.board,
                      move |-> r.move, events |-> <<>>, metrics |-> r.metrics]
                ELSE With(emitTelemetry(self,
                              [move |-> r.move,
                               result |-> IF r.move # NoCell THEN "move-selected"
                                          ELSE "no-move"]),
                          LAMBDA sent :
                            IF sent.threw
                            THEN [threw |-> TRUE, error |-> "telemetry", board |-> r.board,
                                  move |-> NoCell, events |-> sent.events,
                                  metrics |-> r.metrics]
                            ELSE [threw |-> FALSE, error |-> "", board |-> r.board,
                                  move |-> r.move, events |-> sent.events,
                                  metrics |-> r.metrics]))

(***************************************************************************)
(* Inputs.  Snapshots handed to loadState, cells handed to applyMove and   *)
(* step counts handed to undoLastMove.                                     *)
(***************************************************************************)
Last == EngineBoardSize - 1

\* a board of the given size with the given stones
StonesOn(size, black, white) ==
    [r \in 0 .. (size - 1) |-> [c \in 0 .. (size - 1) |->
        IF <<r, c>> \in black THEN BLACK
        ELSE IF <<r, c>> \in white THEN WHITE ELSE EMPTY]]

Stones(black, white) == StonesOn(EngineBoardSize, black, white)

\* a full colouring of the board without five in a row on any axis
Pattern(r, c) == IF (r + 2 * c) % 4 < 2 THEN BLACK ELSE WHITE

FullBoardOn(size) == [r \in 0 .. (size - 1) |-> [c \in 0 .. (size - 1) |-> Pattern(r, c)]]

FullBoard == FullBoardOn(EngineBoardSize)

\* row 0 of a full board is B B _ B B: the cell (0,2) is the only empty one
GapBoardOn(size) ==
    [r \in 0 .. (size - 1) |-> [c \in 0 .. (size - 1) |->
        IF r = 0 /\ c = 2 THEN EMPTY
        ELSE IF r = 0 /\ c < 5 THEN BLACK ELSE Pattern(r, c)]]

GapBoard == GapBoardOn(EngineBoardSize)

\* Black to move: filling (0,2) completes the line from the middle, on the last empty cell
SnapLastCellWin ==
    [board |-> GapBoard, currentPlayer |-> BLACK,
     moveHistory |-> <<Move(0, 4, BLACK)>>, startingPlayer |-> BLACK]

\* White to move: filling (0,2) completes nothing and fills the board
SnapAlmostFull ==
    [board |-> GapBoard, currentPlayer |-> WHITE,
     moveHistory |-> <<Move(0, 4, BLACK)>>, startingPlayer |-> BLACK]

\* a full board without a line (no startingPlayer field)
SnapFull ==
    [board |-> FullBoard, currentPlayer |-> BLACK, moveHistory |-> <<>>]

\* a finished game: Black has five in row 2; the last recorded move is White's
SnapWon ==
    [board |-> Stones({<<2, 0>>, <<2, 1>>, <<2, 2>>, <<2, 3>>, <<2, 4>>},
                      {<<1, 0>>, <<1, 1>>, <<1, 2>>, <<1, 3>>}),
     currentPlayer |-> BLACK,
     moveHistory |-> <<Move(2, 4, BLACK), Move(1, 3, WHITE)>>, startingPlayer |-> BLACK]

\* the same stone recorded twice in the history
SnapDuplicate ==
    [board |-> Stones({<<0, 2>>}, {}), currentPlayer |-> WHITE,
     moveHistory |-> <<Move(0, 2, BLACK), Move(0, 2, BLACK)>>, startingPlayer |-> BLACK]

SnapNoBoard == [currentPlayer |-> WHITE]

SnapShortBoard ==
    [board |-> createEmptyBoard(EngineBoardSize - 1), currentPlayer |-> WHITE,
     moveHistory |-> <<>>, startingPlayer |-> WHITE]

SnapBadRow ==
    [board |-> [r \in Idx |-> IF r = 1 THEN [c \in 0 .. (Last - 1) |-> EMPTY]
                                        ELSE [c \in Idx |-> EMPTY]],
     currentPlayer |-> WHITE, moveHistory |-> <<>>, startingPlayer |-> WHITE]

SnapBadCell ==
    [board |-> [createEmptyBoard(EngineBoardSize) EXCEPT ![1][1] = 3],
     currentPlayer |-> WHITE, moveHistory |-> <<>>, startingPlayer |-> WHITE]

SnapHistoryOutOfBounds ==
    [board |-> Stones({}, {<<0, 4>>}), currentPlayer |-> WHITE,
     moveHistory |-> <<Move(0, 4, WHITE), Move(EngineBoardSize, 0, BLACK)>>,
     startingPlayer |-> BLACK]

SnapHistoryMismatch ==
    [board |-> Stones({<<0, 0>>}, {}), currentPlayer |-> WHITE,
     moveHistory |-> <<Move(0, 0, WHITE)>>, startingPlayer |-> WHITE]

ValidSnapshots ==
    {SnapLastCellWin, SnapAlmostFull, SnapFull, SnapWon, SnapDuplicate}

InvalidSnapshots ==
    {SnapNoBoard, SnapShortBoard, SnapBadRow, SnapBadCell,
     SnapHistoryOutOfBounds, SnapHistoryMismatch}

Snapshots == ValidSnapshots \cup InvalidSnapshots

InBoundsInputs == {<<0, 2>>, <<0, 4>>}
OutOfBoundsInputs == {<<-1, 0>>, <<0, EngineBoardSize>>}
MoveInputs == InBoundsInputs \cup OutOfBoundsInputs

UndoInputs == (-1) .. MaxUndoSteps

MaxHistoryInputs == 0 .. MaxHistoryLimit

\* Boards handed to AIPlayer.makeMove
EmptyBoard == createEmptyBoard(BOARD_SIZE)

AIStones(black, white) == StonesOn(BOARD_SIZE, black, white)

AIFullBoard == FullBoardOn(BOARD_SIZE)

AIGapBoard == GapBoardOn(BOARD_SIZE)

\* a full board but for (0,0), where neither colour completes a line
OneEmptyBoard == [AIFullBoard EXCEPT ![0][0] = EMPTY]

\* White can complete row 0 at (0,4), Black row 2 at (2,4)
BothThreatsBoard ==
    AIStones({<<2, 0>>, <<2, 1>>, <<2, 2>>, <<2, 3>>},
             {<<0, 0>>, <<0, 1>>, <<0, 2>>, <<0, 3>>})

\* Black can complete row 1 at (1,4) and row 3 at (3,0) and at (3,5)
TwoWinsBoard ==
    AIStones({<<1, 0>>, <<1, 1>>, <<1, 2>>, <<1, 3>>, <<3, 1>>, <<3, 2>>, <<3, 3>>, <<3, 4>>},
             {<<0, 0>>, <<2, 2>>, <<4, 4>>, <<4, 0>>, <<0, 4>>, <<2, 0>>, <<2, 4>>, <<4, 2>>})

\* White can complete column 2 from the middle, at (2,2)
MiddleOfLineBoard ==
    AIStones({<<0, 0>>, <<1, 1>>, <<3, 3>>, <<4, 0>>},
             {<<0, 2>>, <<1, 2>>, <<3, 2>>, <<4, 2>>})

\* two stones in a corner, no threat
CornerBoard == AIStones({<<0, 0>>}, {<<0, 1>>})

\* an opening without a threat
OpeningBoard == AIStones({<<2, 2>>, <<1, 2>>}, {<<2, 1>>, <<3, 3>>})

\* three Black stones in row 10 with both ends open (ai-player.spec.js)
OpenThreeBoard == AIStones({<<10, 2>>, <<10, 3>>, <<10, 4>>}, {})

\* a full board but for two opposite corners, where neither colour completes a line
TwoEmptyBoard == [AIFullBoard EXCEPT ![0][0] = EMPTY, ![BOARD_SIZE - 1][BOARD_SIZE - 1] = EMPTY]

ShortBoard == createEmptyBoard(BOARD_SIZE - 1)

\* BOARD_SIZE rows, the second of them one cell too long
LongRowBoard == [EmptyBoard EXCEPT ![1] = [c \in 0 .. BOARD_SIZE |-> EMPTY]]

AIBoards ==
    {EmptyBoard, AIFullBoard, AIGapBoard, OneEmptyBoard, BothThreatsBoard, TwoWinsBoard,
     MiddleOfLineBoard, CornerBoard, OpeningBoard, OpenThreeBoard, TwoEmptyBoard,
     ShortBoard, LongRowBoard}

\* Boards handed to makeMove by a player with a telemetry sink
TelemetryBoards ==
    {AIFullBoard, OneEmptyBoard, BothThreatsBoard, TwoWinsBoard, CornerBoard, ShortBoard}

Difficulties == {"easy", "medium", "hard"}

Telemetries == {"none", "ok", "throws"}

\* random() is consulted by the easy tier and by makeRandomMove only
AIPlayers ==
    {p \in [difficulty : Difficulties \cup {"expert"}, playerColor : {BLACK, WHITE},
            random : 0 .. (RandomSteps - 1), telemetry : Telemetries] :
        /\ p.difficulty # "easy" => p.random = 0
        /\ p.difficulty = "expert" => p.playerColor = BLACK
        /\ p.telemetry # "none" => (p.random = 0 /\ p.playerColor = BLACK)}

(***************************************************************************)
(* State machine.  last records the operation just performed: its name,    *)
(* the engine it was called on and what it returned (for loadState, the    *)
(* snapshot it was given as well; for undoLastMove, the step count).       *)
(* played is the record of the moves of engine e that have not been        *)
(* undone, in playing order, since its board was last reset or loaded.     *)
(***************************************************************************)
Now == World(engines, boards, hists)

Op(name, target, ret) == [op |-> name, target |-> target, ret |-> ret]

Becomes(W) ==
    \E C \in {Collect(W)} :
        engines' = C.eng /\ boards' = C.boards /\ hists' = C.hists

NoWorld ==
    World([x \in {} |-> 0], [r \in Refs |-> createEmptyBoard(0)], [r \in Refs |-> <<>>])

\* new GomokuEngine({boardSize: EngineBoardSize, maxHistory})
InitEngine(maxHistory) ==
    \E C \in {Collect(construct(NoWorld, "e", EngineBoardSize, BLACK, maxHistory))} :
        /\ engines = C.eng
        /\ boards = C.boards
        /\ hists = C.hists
        /\ last = Op("new", "e", Returned)
        /\ onlyMoves = TRUE
        /\ partialLoads = 0
        /\ played = <<>>

\* no AI player is in use
NoAI ==
    [phase |-> "off",
     self |-> [difficulty |-> "", playerColor |-> EMPTY, random |-> 0, telemetry |-> "none"],
     board |-> createEmptyBoard(0), before |-> createEmptyBoard(0),
     move |-> NoCell, threw |-> FALSE, error |-> "", events |-> <<>>]

\* no exported function is being called on its own
NoCall == [op |-> "none"]

\* no page is open
NoUI == [event |-> "off"]

Init == (\E m \in MaxHistoryInputs : InitEngine(m)) /\ ai = NoAI /\ call = NoCall /\ ui = NoUI

Single == DOMAIN engines = {"e"}

ApplyMove(e) ==
    \E rc \in MoveInputs :
        \E r \in {applyMove(Now, e, rc[1], rc[2])} :
            /\ Becomes(r.W)
            /\ last' = Op("applyMove", e, r.ret)
            /\ played' = IF r.ret.status = "invalid" THEN played
                         ELSE Append(played, r.W.eng[e].lastMove)

UndoStep(e, steps) ==
    \E r \in {undoLastMove(Now, e, steps)} :
        /\ Becomes(r.W)
        /\ last' = [op |-> "undoLastMove", target |-> e, ret |-> r.ret, steps |-> steps]
        /\ played' = SubSeq(played, 1, Len(played) - Len(r.ret))

UndoLastMove(e) == \E steps \in UndoInputs : UndoStep(e, steps)

Reset(e) ==
    /\ Becomes(reset(Now, e))
    /\ last' = Op("reset", e, Returned)
    /\ played' = <<>>

\* A loadState that throws after it has overwritten fields can be repeated
\* without end (the history keeps growing): the model bounds how often.
LoadState(e) ==
    \E s \in Snapshots :
        \E r \in {loadState(Now, e, s)} :
        \E partial \in {r.ret.threw /\ r.W # Now} :
            /\ partial => partialLoads < MaxPartialLoads
            /\ Becomes(r.W)
            /\ last' = [op |-> "loadState", target |-> e, ret |-> r.ret, state |-> s]
            /\ partialLoads' = IF partial THEN partialLoads + 1 ELSE partialLoads
            /\ played' = IF r.ret.threw THEN played
                         ELSE IF "moveHistory" \notin DOMAIN s THEN <<>>
                         ELSE [i \in 1 .. Len(s.moveHistory) |-> normalizeEntry(s.moveHistory[i])]

\* c = e.clone()
Clone ==
    \E r \in {clone(Now, "e", "c")} :
        Becomes(r.W) /\ last' = Op("clone", "e", r.ret) /\ UNCHANGED played

\* c = GomokuEngine.fromState(e.toJSON())
RoundTrip ==
    \E r \in {fromState(Now, "c", toJSON(Now, "e"), 0)} :
        Becomes(r.W) /\ last' = Op("fromState", "e", r.ret) /\ UNCHANGED played

\* the driver drops the second engine
Discard ==
    /\ Becomes(Without(Now, "c"))
    /\ last' = Op("discard", "c", Returned)
    /\ UNCHANGED played

\* onlyMoves: nothing but applyMove has been called since construction
Next ==
    \/ Single /\ ApplyMove("e") /\ UNCHANGED <<partialLoads, onlyMoves, ai, call, ui>>
    \/ Single /\ UndoLastMove("e") /\ onlyMoves' = FALSE /\ UNCHANGED <<partialLoads, ai, call, ui>>
    \/ Single /\ Reset("e") /\ onlyMoves' = FALSE /\ UNCHANGED <<partialLoads, ai, call, ui>>
    \/ Single /\ LoadState("e") /\ onlyMoves' = FALSE /\ UNCHANGED <<ai, call, ui>>
    \/ Single /\ Clone /\ UNCHANGED <<partialLoads, onlyMoves, ai, call, ui>>
    \/ Single /\ RoundTrip /\ UNCHANGED <<partialLoads, onlyMoves, ai, call, ui>>
    \/ ~Single /\ Discard /\ UNCHANGED <<partialLoads, onlyMoves, ai, call, ui>>

Spec == Init /\ [][Next]_vars

(***************************************************************************)
(* The engine with a caller that asks for the available moves and plays    *)
(* one of the cells it was given.  The number of moves played is bounded.  *)
(***************************************************************************)
GetAvailableMoves(e) ==
    \E vicinityOnly \in BOOLEAN :
        /\ last' = [op |-> "getAvailableMoves", target |-> e,
                    ret |-> getAvailableMoves(Now, e, vicinityOnly),
                    vicinityOnly |-> vicinityOnly]
        /\ UNCHANGED <<engines, boards, hists, played>>

\* applyMove on a cell of the list getAvailableMoves has just returned
PlayAvailable(e) ==
    /\ last.op = "getAvailableMoves" /\ last.target = e
    /\ Len(played) < MaxPlayed
    /\ \E i \in 1 .. Len(last.ret) :
        \E r \in {applyMove(Now, e, last.ret[i].row, last.ret[i].col)} :
            /\ Becomes(r.W)
            /\ last' = [op |-> "applyMove", target |-> e, ret |-> r.ret,
                        available |-> last.ret[i]]
            /\ played' = IF r.ret.status = "invalid" THEN played
                         ELSE Append(played, r.W.eng[e].lastMove)

\* the caller starts from a new engine or from a snapshot loaded into one
NextMoves ==
    \/ last.op = "new" /\ LoadState("e") /\ onlyMoves' = FALSE /\ UNCHANGED <<ai, call, ui>>
    \/ GetAvailableMoves("e") /\ UNCHANGED <<partialLoads, onlyMoves, ai, call, ui>>
    \/ PlayAvailable("e") /\ UNCHANGED <<partialLoads, onlyMoves, ai, call, ui>>

SpecMoves == Init /\ [][NextMoves]_vars

(***************************************************************************)
(* The AI player on its own: a caller hands a board to makeMove.           *)
(* ai.before is the board as it was when makeMove was called.              *)
(***************************************************************************)
InitAI ==
    /\ InitEngine(0)
    /\ call = NoCall
    /\ ui = NoUI
    /\ \E b \in AIBoards : \E p \in {q \in AIPlayers : q.telemetry # "none" => b \in TelemetryBoards} :
            ai = [phase |-> "called", self |-> p, board |-> b, before |-> b,
                  move |-> NoCell, threw |-> FALSE, error |-> "", events |-> <<>>]

MakeMove ==
    /\ ai.phase = "called"
    /\ \E r \in {makeMove(ai.board, ai.self)} :
            ai' = [ai EXCEPT !.phase = "returned", !.board = r.board,
                             !.move = r.move, !.threw = r.threw,
                             !.error = r.error, !.events = r.events]
    /\ UNCHANGED <<engineVars, call, ui>>

NextAI == MakeMove

SpecAI == InitAI /\ [][NextAI]_vars

(***************************************************************************)
(* determineWinningSequence on its own: boards of LineBoardSize holding    *)
(* one run, two crossing runs of five, or a run of six with a cell taken   *)
(* out, and an origin among the stones or on the first empty cell.         *)
(***************************************************************************)
LineIdx == 0 .. (LineBoardSize - 1)

LineCells == LineIdx \X LineIdx

\* the cells start, start + d, ... (len of them)
Run(start, d, len) ==
    {<<start[1] + k * d[1], start[2] + k * d[2]>> : k \in 0 .. (len - 1)}

Runs(len) ==
    {run \in {Run(start, directions[i], len) : start \in LineCells, i \in 1 .. Len(directions)} :
        run \subseteq LineCells}

\* the axis (an index of directions) two cells of a run lie on
SameAxis(run1, run2) ==
    \E i \in 1 .. Len(directions) :
        \A run \in {run1, run2} : \A x \in run : \A y \in run :
            \E k \in (-LineBoardSize) .. LineBoardSize :
                y = <<x[1] + k * directions[i][1], x[2] + k * directions[i][2]>>

Crosses ==
    {pair[1] \cup pair[2] :
        pair \in {q \in Runs(5) \X Runs(5) : q[1] \cap q[2] # {} /\ ~SameAxis(q[1], q[2])}}

\* a run of six and the cell of it that does not hold the run's colour
Broken == {[run |-> run, hole |-> hole] : run \in Runs(6), hole \in LineCells}

LineBoards ==
    LET single == Runs(4) \cup Runs(5) \cup Runs(6) \cup Crosses
    IN  {StonesOn(LineBoardSize, run, {}) : run \in single}
            \cup {StonesOn(LineBoardSize, {}, run) : run \in single}
            \cup {StonesOn(LineBoardSize, x.run \ {x.hole}, {x.hole}) :
                        x \in {y \in Broken : y.hole \in y.run}}
            \cup {StonesOn(LineBoardSize, {}, x.run \ {x.hole}) :
                        x \in {y \in Broken : y.hole \in y.run}}

\* the stones of the board and its first empty cell in row-major order
Origins(board) ==
    {rc \in LineCells :
        \/ board[rc[1]][rc[2]] # EMPTY
        \/ \A x \in LineCells :
                board[x[1]][x[2]] = EMPTY =>
                    rc[1] < x[1] \/ (rc[1] = x[1] /\ rc[2] <= x[2])}

InitLines ==
    /\ InitEngine(0)
    /\ ai = NoAI
    /\ ui = NoUI
    /\ \E b \in LineBoards : \E rc \in Origins(b) :
            call = [op |-> "determineWinningSequence", phase |-> "called",
                    board |-> b, row |-> rc[1], col |-> rc[2], ret |-> NoWin]

DetermineWinningSequence ==
    /\ call.op = "determineWinningSequence" /\ call.phase = "called"
    /\ call' = [call EXCEPT !.phase = "returned",
                            !.ret = determineWinningSequence(call.board, call.row, call.col)]
    /\ UNCHANGED <<engineVars, ai, ui>>

NextLines == DetermineWinningSequence

SpecLines == InitLines /\ [][NextLines]_vars


(***************************************************************************)
(* The evaluation functions of the AI on their own: scoreLinesForPlayer,   *)
(* evaluateBoard and prepareCandidates, called on boards that hold one run *)
(* of Black stones with or without White stones at its ends, and on the    *)
(* boards handed to makeMove.                                              *)
(***************************************************************************)
RunStarts == {0, 5, 10} \X {0, 5, 10}

RunLengths == 1 .. 6

\* a run of Black stones from start along d; before and after tell whether a
\* White stone closes the run at that end
RunBoard(start, d, len, before, after) ==
    LET ahead == <<start[1] + len * d[1], start[2] + len * d[2]>>
        behind == <<start[1] - d[1], start[2] - d[2]>>
        inside == AIIdx \X AIIdx
    IN  AIStones(Run(start, d, len),
                 ((IF after THEN {ahead} ELSE {}) \cup (IF before THEN {behind} ELSE {}))
                    \cap inside)

RunBoards ==
    {RunBoard(x[1], directions[x[2]], x[3], x[4], x[5]) :
        x \in {y \in RunStarts \X (1 .. 4) \X RunLengths \X BOOLEAN \X BOOLEAN :
                    Run(y[1], directions[y[2]], y[3]) \subseteq AIIdx \X AIIdx}}

\* the boards of AIBoards that have BOARD_SIZE rows of BOARD_SIZE cells
SquareBoards ==
    {EmptyBoard, AIFullBoard, AIGapBoard, OneEmptyBoard, BothThreatsBoard, TwoWinsBoard,
     MiddleOfLineBoard, CornerBoard, OpeningBoard, OpenThreeBoard, TwoEmptyBoard}

CandidateLimits == {1, 3, HARD_CANDIDATE_LIMIT, EASY_CANDIDATE_LIMIT}

EvalCalls ==
    {[op |-> "scoreLinesForPlayer", phase |-> "called", board |-> b, player |-> pl,
      limit |-> 0, perspective |-> pl, ret |-> 0] :
        b \in RunBoards \cup SquareBoards, pl \in {BLACK, WHITE}}
    \cup
    {[op |-> "evaluateBoard", phase |-> "called", board |-> b, player |-> pl,
      limit |-> 0, perspective |-> pl, ret |-> 0] :
        b \in RunBoards \cup SquareBoards, pl \in {BLACK, WHITE}}
    \cup
    {[op |-> "prepareCandidates", phase |-> "called", board |-> b, player |-> pl,
      limit |-> n, perspective |-> ps, ret |-> 0] :
        b \in SquareBoards, pl \in {BLACK, WHITE}, ps \in {BLACK, WHITE}, n \in CandidateLimits}

InitEval ==
    /\ InitEngine(0)
    /\ ai = NoAI
    /\ ui = NoUI
    /\ call \in EvalCalls

ScoreLinesForPlayer ==
    /\ call.op = "scoreLinesForPlayer" /\ call.phase = "called"
    /\ call' = [call EXCEPT !.phase = "returned",
                            !.ret = scoreLinesForPlayer(call.board, call.player)]
    /\ UNCHANGED <<engineVars, ai, ui>>

EvaluateBoard ==
    /\ call.op = "evaluateBoard" /\ call.phase = "called"
    /\ call' = [call EXCEPT !.phase = "returned",
                            !.ret = evaluateBoard(call.board, call.perspective)]
    /\ UNCHANGED <<engineVars, ai, ui>>

\* ret is the ranked list; board becomes the caller's array after the call
PrepareCandidates ==
    /\ call.op = "prepareCandidates" /\ call.phase = "called"
    /\ \E r \in {prepareCandidates(call.board, call.limit, call.player, call.perspective)} :
            call' = [op |-> call.op, phase |-> "returned", board |-> call.board,
                     player |-> call.player, limit |-> call.limit,
                     perspective |-> call.perspective, ret |-> r.ranked, after |-> r.board]
    /\ UNCHANGED <<engineVars, ai, ui>>

NextEval == ScoreLinesForPlayer \/ EvaluateBoard \/ PrepareCandidates

SpecEval == InitEval /\ [][NextEval]_vars

(***************************************************************************)
(* Self-play: playGame of the benchmark runner.  call holds the locals of  *)
(* playGame: the two tiers, the moves counter, the move the agent          *)
(* returned last and the result; phase is "playing" inside the loop,       *)
(* "returned" after a return and "threw" after a throw.  The agent is      *)
(* handed engine.getBoard(), the engine's own array.  A random source is   *)
(* the sequence of values it yields, read cyclically, one per move of the  *)
(* game; the tiers other than easy do not consult it on these boards.      *)
(***************************************************************************)
maxMoves == BOARD_SIZE * BOARD_SIZE

Pairings == Difficulties \X Difficulties

RandomSources == {<<0>>, <<2>>, <<0, 0, 0, 1>>}

Games ==
    {g \in Pairings \X RandomSources :
        "easy" \notin {g[1][1], g[1][2]} => g[2] = <<0>>}

InitPlay ==
    /\ \E C \in {Collect(construct(NoWorld, "e", BOARD_SIZE, BLACK, 0))} :
            /\ engines = C.eng
            /\ boards = C.boards
            /\ hists = C.hists
    /\ last = Op("new", "e", Returned)
    /\ onlyMoves = TRUE
    /\ partialLoads = 0
    /\ played = <<>>
    /\ ai = NoAI
    /\ ui = NoUI
    /\ \E g \in Games :
            call = [op |-> "playGame", phase |-> "playing",
                    blackDifficulty |-> g[1][1], whiteDifficulty |-> g[1][2],
                    random |-> g[2],
                    moves |-> 0, move |-> NoCell, result |-> "", error |-> ""]

\* the agent of the current player, with the value its random source yields
agentOf(currentPlayer) ==
    [difficulty |-> IF currentPlayer = BLACK THEN call.blackDifficulty
                    ELSE call.whiteDifficulty,
     playerColor |-> currentPlayer,
     random |-> call.random[(call.moves % Len(call.random)) + 1],
     telemetry |-> "none"]

\* how far the model follows the game
FollowedMoves ==
    IF "hard" \in {call.blackDifficulty, call.whiteDifficulty}
    THEN MaxHardGameMoves ELSE MaxGameMoves

\* one pass through the body of playGame's loop, and the return after the
\* loop when its condition has become false
PlayGameStep ==
    /\ call.op = "playGame" /\ call.phase = "playing"
    /\ ~engines["e"].gameOver /\ call.moves < maxMoves
    /\ call.moves < FollowedMoves
    /\ \E currentPlayer \in {engines["e"].currentPlayer} :
       \E r \in {makeMove(boardOf(Now, "e"), agentOf(currentPlayer))} :
       \E W1 \in {[Now EXCEPT !.boards[engines["e"].board] = r.board]} :
            IF r.threw \/ r.move = NoCell
            THEN /\ Becomes(W1)
                 /\ call' = [call EXCEPT !.phase = "threw", !.move = NoCell,
                                         !.error = IF r.threw THEN r.error
                                                   ELSE "AI returned no move"]
                 /\ UNCHANGED <<last, played>>
            ELSE
            \E outcome \in {applyMove(W1, "e", r.move.row, r.move.col)} :
                /\ Becomes(outcome.W)
                /\ last' = Op("applyMove", "e", outcome.ret)
                /\ played' = IF outcome.ret.status = "invalid" THEN played
                             ELSE Append(played, outcome.W.eng["e"].lastMove)
                /\ call' =
                    IF outcome.ret.status = "invalid"
                    THEN [call EXCEPT !.phase = "threw", !.move = r.move,
                                      !.error = "Invalid move produced"]
                    ELSE IF outcome.ret.status = "win"
                    THEN [call EXCEPT !.phase = "returned", !.move = r.move,
                                      !.moves = call.moves + 1,
                                      !.result = IF currentPlayer = BLACK THEN "black"
                                                 ELSE "white"]
                    ELSE IF outcome.ret.status = "draw"
                    THEN [call EXCEPT !.phase = "returned", !.move = r.move,
                                      !.moves = call.moves + 1, !.result = "draw"]
                    ELSE IF call.moves + 1 < maxMoves
                    THEN [call EXCEPT !.move = r.move, !.moves = call.moves + 1]
                    ELSE [call EXCEPT !.phase = "returned", !.move = r.move,
                                      !.moves = maxMoves, !.result = "draw"]
    /\ UNCHANGED <<onlyMoves, partialLoads, ai, ui>>

NextPlay == PlayGameStep

SpecPlay == InitPlay /\ [][NextPlay]_vars

(***************************************************************************)
(* The page script.  ui holds its module-level variables: board,           *)
(* currentPlayer, gameOver, moveHistory, winningSequence, the two colours, *)
(* gameMode, aiPlayer, isReviewMode, reviewIndex and reviewTimer (TRUE     *)
(* while the replay interval is set).  aiTimers counts the pending         *)
(* setTimeout callbacks that call makeAIMove: none is ever cleared, and    *)
(* the conditions three of them test before the call are conditions        *)
(* makeAIMove tests itself.  event names the handler that ran last; for    *)
(* undo, removedMoves is its local array and recorded is moveHistory as it *)
(* was when undo was called; entered is the live position review mode was  *)
(* entered from, and longReviews counts the entries made with a full       *)
(* history.  The DOM, the last-move highlight and the difficulty select    *)
(* (the AI stays at its default tier) are not modelled.                    *)
(***************************************************************************)
NoAIPlayer == [difficulty |-> "", playerColor |-> EMPTY]

opposite(player) == IF player = BLACK THEN WHITE ELSE BLACK

\* saveMove: push, then shift when the history has outgrown MAX_HISTORY
script_saveMove(moveHistory, row, col, currentPlayer) ==
    LET pushed == Append(moveHistory, Move(row, col, currentPlayer))
    IN  IF Len(pushed) > MAX_HISTORY THEN Tail(pushed) ELSE pushed

\* makeMove(row, col) of the page
script_makeMove(u, row, col) ==
    LET board1 == [u.board EXCEPT ![row][col] = u.currentPlayer]
        history1 == script_saveMove(u.moveHistory, row, col, u.currentPlayer)
        u1 == [u EXCEPT !.board = board1, !.moveHistory = history1,
                        !.reviewIndex = IF u.isReviewMode THEN @ ELSE Len(history1)]
    IN
    With(determineWinningSequence(board1, row, col),
         LAMBDA result :
            IF result # NoWin
            THEN [u1 EXCEPT !.gameOver = TRUE, !.winningSequence = result.sequence]
            ELSE IF checkDraw(board1)
            THEN [u1 EXCEPT !.gameOver = TRUE, !.winningSequence = <<>>]
            ELSE [u1 EXCEPT !.currentPlayer = opposite(u.currentPlayer),
                            !.winningSequence = <<>>])

\* the loop of buildSnapshotFromHistory from entry i on (entries count from 1)
RECURSIVE snapshotLoop(_, _, _, _)
snapshotLoop(moveHistory, limit, i, snap) ==
    IF ~(i - 1 < limit /\ i - 1 < Len(moveHistory)) THEN snap
    ELSE
    LET move == moveHistory[i]
        snapshotBoard == [snap.board EXCEPT ![move.row][move.col] = move.player]
        placed == [snap EXCEPT !.board = snapshotBoard, !.lastMove = move]
    IN  IF snap.winningMoveIndex = -1
        THEN With(determineWinningSequence(snapshotBoard, move.row, move.col),
                  LAMBDA result :
                    IF result # NoWin
                    THEN snapshotLoop(moveHistory, limit, i + 1,
                                      [placed EXCEPT !.winningSequence = result.sequence,
                                                     !.winningMoveIndex = i - 1])
                    ELSE snapshotLoop(moveHistory, limit, i + 1, placed))
        ELSE snapshotLoop(moveHistory, limit, i + 1, placed)

buildSnapshotFromHistory(moveHistory, limit) ==
    With(snapshotLoop(moveHistory, limit, 1,
                      [board |-> createEmptyBoard(BOARD_SIZE), lastMove |-> NoMove,
                       winningSequence |-> <<>>, winningMoveIndex |-> -1]),
         LAMBDA snap :
            LET isWinningPosition == snap.winningMoveIndex # -1
                                        /\ limit = snap.winningMoveIndex + 1
                isDrawPosition == limit = Len(moveHistory) /\ checkDraw(snap.board)
            IN  [board |-> snap.board,
                 lastMove |-> snap.lastMove,
                 winningSequence |-> IF isWinningPosition THEN snap.winningSequence ELSE <<>>,
                 isWinningPosition |-> isWinningPosition,
                 isDraw |-> isDrawPosition,
                 nextPlayer |-> IF snap.lastMove = NoMove THEN BLACK
                                ELSE IF isWinningPosition \/ isDrawPosition
                                THEN snap.lastMove.player
                                ELSE opposite(snap.lastMove.player)])

jumpToMove(u, index) ==
    LET clamped == Max(0, Min(index, Len(u.moveHistory)))
    IN
    With(buildSnapshotFromHistory(u.moveHistory, clamped),
         LAMBDA snapshot :
            [u EXCEPT !.reviewIndex = clamped,
                      !.board = snapshot.board,
                      !.winningSequence = snapshot.winningSequence,
                      !.currentPlayer = snapshot.nextPlayer,
                      !.gameOver = snapshot.isWinningPosition
                                    \/ (snapshot.isDraw /\ clamped = Len(u.moveHistory))])

enterReviewMode(u, index) ==
    IF Len(u.moveHistory) = 0 THEN u
    ELSE jumpToMove([u EXCEPT !.reviewTimer = FALSE, !.isReviewMode = TRUE], index)

\* no timer is set
scheduleNoAIMove(u) == u

\* the timer the handlers set when it is the AI's turn
scheduleAIMove(u) ==
    IF ~u.gameOver /\ u.gameMode = "ai" /\ u.currentPlayer = u.aiPlayerColor
    THEN [u EXCEPT !.aiTimers = @ + 1] ELSE u

exitReviewMode(u) ==
    IF ~u.isReviewMode /\ ~u.reviewTimer
    THEN [u EXCEPT !.reviewIndex = Len(u.moveHistory)]
    ELSE scheduleAIMove(jumpToMove([u EXCEPT !.reviewTimer = FALSE,
                                             !.isReviewMode = FALSE],
                                   Len(u.moveHistory)))

step(u, delta) ==
    IF Len(u.moveHistory) = 0 THEN u
    ELSE LET pointer == (IF u.isReviewMode THEN u.reviewIndex ELSE Len(u.moveHistory)) + delta
             clamped == Max(0, Min(pointer, Len(u.moveHistory)))
         IN  IF ~u.isReviewMode THEN enterReviewMode(u, clamped)
             ELSE jumpToMove(u, clamped)

stopReplay(u) == [u EXCEPT !.reviewTimer = FALSE]

toggleReplay(u) ==
    IF Len(u.moveHistory) = 0 THEN u
    ELSE IF u.reviewTimer THEN stopReplay(u)
    ELSE [(IF ~u.isReviewMode \/ u.reviewIndex >= Len(u.moveHistory)
           THEN enterReviewMode(u, 0) ELSE u) EXCEPT !.reviewTimer = TRUE]

\* the callback of the interval toggleReplay sets
replayTick(u) ==
    IF ~u.isReviewMode \/ u.reviewIndex >= Len(u.moveHistory) THEN stopReplay(u)
    ELSE With(jumpToMove(u, u.reviewIndex + 1),
              LAMBDA u1 :
                IF u1.reviewIndex >= Len(u1.moveHistory) THEN stopReplay(u1) ELSE u1)

\* undoSingleMove: pop the last entry, empty its cell, push it on removedMoves
undoSingleMove(u) ==
    LET entry == u.moveHistory[Len(u.moveHistory)]
    IN  [u EXCEPT !.moveHistory = SubSeq(u.moveHistory, 1, Len(u.moveHistory) - 1),
                  !.board[entry.row][entry.col] = EMPTY,
                  !.removedMoves = Append(u.removedMoves, entry)]

\* the while loop of undo in AI mode
RECURSIVE undoUntilBothColors(_)
undoUntilBothColors(u) ==
    IF Cardinality({u.removedMoves[i].player : i \in 1 .. Len(u.removedMoves)}) < 2
        /\ Len(u.moveHistory) > 0
    THEN undoUntilBothColors(undoSingleMove(u))
    ELSE u

\* undo's turn rule: the opponent of the last remaining entry, Black when none
turnAfterUndo(u) ==
    IF Len(u.moveHistory) > 0
    THEN opposite(u.moveHistory[Len(u.moveHistory)].player)
    ELSE BLACK

undo(u) ==
    IF Len(u.moveHistory) = 0 THEN u
    ELSE
    With(undoSingleMove([(IF u.isReviewMode THEN exitReviewMode(u) ELSE stopReplay(u))
                            EXCEPT !.winningSequence = <<>>, !.removedMoves = <<>>]),
         LAMBDA u1 :
    With(IF u1.gameMode = "ai" /\ Len(u1.moveHistory) > 0
         THEN undoUntilBothColors(u1) ELSE u1,
         LAMBDA u2 :
            scheduleAIMove([u2 EXCEPT !.currentPlayer = turnAfterUndo(u2),
                                      !.gameOver = FALSE,
                                      !.winningSequence = <<>>,
                                      !.reviewIndex = Len(u2.moveHistory)])))

resetGame(u) ==
    LET aiPlayerColor == opposite(u.humanPlayerColor)
    IN  [u EXCEPT !.reviewTimer = FALSE, !.isReviewMode = FALSE, !.reviewIndex = 0,
                  !.aiPlayerColor = aiPlayerColor,
                  !.winningSequence = <<>>,
                  !.board = createEmptyBoard(BOARD_SIZE),
                  !.currentPlayer = BLACK,
                  !.gameOver = FALSE,
                  !.moveHistory = <<>>,
                  !.aiPlayer = IF u.gameMode = "ai"
                               THEN [difficulty |-> "easy", playerColor |-> aiPlayerColor]
                               ELSE NoAIPlayer,
                  !.aiTimers = IF u.gameMode = "ai" /\ BLACK = aiPlayerColor
                               THEN @ + 1 ELSE @]

\* makeAIMove with the value Math.random yields; aiPlayer.makeMove works on
\* the page's own board array
makeAIMove(u, random) ==
    IF u.aiPlayer = NoAIPlayer \/ u.gameOver \/ u.isReviewMode
        \/ u.currentPlayer # u.aiPlayerColor
    THEN u
    ELSE
    With(makeMove(u.board, [difficulty |-> u.aiPlayer.difficulty,
                            playerColor |-> u.aiPlayer.playerColor,
                            random |-> random, telemetry |-> "none"]),
         LAMBDA r :
            IF r.move = NoCell THEN [u EXCEPT !.board = r.board]
            ELSE script_makeMove([u EXCEPT !.board = r.board], r.move.row, r.move.col))

\* the value of entered outside review mode
NotEntered == [board |-> <<>>, currentPlayer |-> EMPTY, gameOver |-> FALSE]

\* the page after initializeGame
InitialPage ==
    resetGame([event |-> "initializeGame", removedMoves |-> <<>>, recorded |-> <<>>,
               board |-> createEmptyBoard(BOARD_SIZE), currentPlayer |-> BLACK,
               gameOver |-> FALSE, moveHistory |-> <<>>, winningSequence |-> <<>>,
               humanPlayerColor |-> BLACK, aiPlayerColor |-> WHITE,
               gameMode |-> "human", aiPlayer |-> NoAIPlayer,
               isReviewMode |-> FALSE, reviewIndex |-> 0, reviewTimer |-> FALSE,
               aiTimers |-> 0, entered |-> NotEntered, longReviews |-> 0])

InitUI ==
    /\ InitEngine(0)
    /\ ai = NoAI
    /\ call = NoCall
    /\ ui = InitialPage

StonesOn15(board) == Cardinality({x \in AIIdx \X AIIdx : board[x[1]][x[2]] # EMPTY})

\* the cells of the ClickColumns leftmost columns
ClickableCells == AIIdx \X (0 .. (ClickColumns - 1))

\* the first empty cell, in reading order, of the ClickColumns leftmost columns
FirstEmptyCell ==
    {x \in ClickableCells :
        /\ ui.board[x[1]][x[2]] = EMPTY
        /\ \A y \in ClickableCells :
                ui.board[y[1]][y[2]] = EMPTY =>
                    x[1] * BOARD_SIZE + x[2] <= y[1] * BOARD_SIZE + y[2]}

\* the cell the AI would take first if it were to move
ContestedCell ==
    With(makeMove(ui.board, [difficulty |-> "easy", playerColor |-> ui.aiPlayerColor,
                             random |-> 0, telemetry |-> "none"]),
         LAMBDA r : IF r.move = NoCell THEN {} ELSE {<<r.move.row, r.move.col>>})

\* the cells the players click.  Against the AI, a human playing Black takes
\* the cell the AI wants most, which makes for a long game, and a human
\* playing White takes the first empty cell
ClickInputs ==
    IF ui.gameMode = "ai" /\ ui.humanPlayerColor = BLACK THEN ContestedCell
    ELSE FirstEmptyCell

\* the values Math.random yields: every choice of the AI is followed in the
\* short games, its first choice in the long one
RandomInputs ==
    IF ui.humanPlayerColor = BLACK THEN {0} ELSE 0 .. (RandomSteps - 1)

\* a game is followed until MaxLongReviews reviews of a full history have
\* been left
GameFollowed == ui.longReviews < MaxLongReviews \/ ui.isReviewMode

\* how far the model follows the clicks: MaxAIGameStones stones; between two
\* humans MaxPageStones stones, when the selects were left alone and no
\* timer is pending; against the AI, for a human playing Black, as long as
\* moveHistory holds every stone of the board
Followed ==
    LET stones == StonesOn15(ui.board)
    IN  \/ stones < MaxAIGameStones
        \/ /\ ui.gameMode # "ai"
           /\ ui.humanPlayerColor = BLACK /\ ui.aiTimers = 0
           /\ stones < MaxPageStones
        \/ /\ ui.gameMode = "ai"
           /\ ui.humanPlayerColor = BLACK /\ stones = Len(ui.moveHistory)

\* the fields of ui that are not the page's, after a handler has run:
\* entered keeps the live position while the page stays in review mode and
\* when the exit button has taken it back
Handled(u, event) ==
    [u EXCEPT !.event = event,
              !.removedMoves = IF event = "undo" THEN @ ELSE <<>>,
              !.recorded = IF event = "undo" THEN ui.moveHistory ELSE <<>>,
              !.entered = IF event = "exitReviewMode" \/ (u.isReviewMode /\ ui.isReviewMode)
                          THEN ui.entered
                          ELSE IF ~u.isReviewMode THEN NotEntered
                          ELSE [board |-> ui.board, currentPlayer |-> ui.currentPlayer,
                                gameOver |-> ui.gameOver],
              !.longReviews =
                    IF event \in {"resetGame", "handleGameModeChange", "handlePlayerColorChange"}
                    THEN 0
                    ELSE IF u.isReviewMode /\ ~ui.isReviewMode
                            /\ Len(ui.moveHistory) = MAX_HISTORY
                    THEN @ + 1 ELSE @]

\* at most MaxTimers callbacks are pending at a time
TimersFollowed(u) == u.aiTimers <= MaxTimers

\* the history panel is followed into review mode from a short history that
\* holds every stone of the board and, MaxLongReviews times a game, from a
\* full one
ReviewFollowed ==
    /\ GameFollowed
    /\ \/ ui.isReviewMode
       \/ /\ Len(ui.moveHistory) <= MaxReviewedMoves
          /\ StonesOn15(ui.board) = Len(ui.moveHistory)
       \/ /\ Len(ui.moveHistory) = MAX_HISTORY
          /\ ui.longReviews < MaxLongReviews

\* the pointer stays among the last MaxReviewedMoves entries
PointerFollowed(index) == index + MaxReviewedMoves >= Len(ui.moveHistory)

\* handleCellClick on an empty cell
HandleCellClick ==
    /\ ~(ui.gameOver \/ ui.isReviewMode
            \/ (ui.gameMode = "ai" /\ ui.currentPlayer # ui.humanPlayerColor))
    /\ GameFollowed /\ Followed
    /\ \E x \in ClickInputs :
       \E u \in {script_makeMove(ui, x[1], x[2])} :
       \E u1 \in {IF ~u.gameOver /\ u.gameMode = "ai"
                  THEN [u EXCEPT !.aiTimers = @ + 1] ELSE u} :
            /\ TimersFollowed(u1)
            /\ ui' = Handled(u1, "handleCellClick")
    /\ UNCHANGED <<engineVars, ai, call>>

\* a pending timer fires
MakeAIMove ==
    /\ ui.aiTimers > 0
    /\ \E random \in RandomInputs :
       \E u \in {makeAIMove([ui EXCEPT !.aiTimers = @ - 1], random)} :
            ui' = Handled(u, "makeAIMove")
    /\ UNCHANGED <<engineVars, ai, call>>

\* the Undo button; it is disabled while the history is empty
Undo ==
    /\ Len(ui.moveHistory) > 0
    /\ GameFollowed
    /\ \E u \in {undo(ui)} :
            /\ TimersFollowed(u)
            /\ ui' = Handled(u, "undo")
    /\ UNCHANGED <<engineVars, ai, call>>

\* the New Game button
ResetGame ==
    /\ \E u \in {resetGame(ui)} :
            /\ TimersFollowed(u)
            /\ ui' = Handled(u, "resetGame")
    /\ UNCHANGED <<engineVars, ai, call>>

HandleGameModeChange ==
    /\ \E mode \in {"human", "ai"} :
       \E u \in {resetGame([ui EXCEPT !.gameMode = mode])} :
            /\ TimersFollowed(u)
            /\ ui' = Handled(u, "handleGameModeChange")
    /\ UNCHANGED <<engineVars, ai, call>>

\* the colour select, which is shown in AI mode only
HandlePlayerColorChange ==
    /\ ui.gameMode = "ai"
    /\ \E color \in {BLACK, WHITE} :
       \E u0 \in {[ui EXCEPT !.humanPlayerColor = color, !.aiPlayerColor = opposite(color)]} :
       \E u \in {IF u0.gameMode = "ai" THEN resetGame(u0) ELSE u0} :
            /\ TimersFollowed(u)
            /\ ui' = Handled(u, "handlePlayerColorChange")
    /\ UNCHANGED <<engineVars, ai, call>>

\* the step buttons of the history panel
StepReview ==
    /\ Len(ui.moveHistory) > 0
    /\ ReviewFollowed
    /\ \E delta \in {-1, 1} :
            /\ PointerFollowed((IF ui.isReviewMode THEN ui.reviewIndex
                                ELSE Len(ui.moveHistory)) + delta)
            /\ ui' = Handled(step(ui, delta), "step")
    /\ UNCHANGED <<engineVars, ai, call>>

\* a click on an entry of the history panel
EnterReviewMode ==
    /\ ReviewFollowed
    /\ \E index \in 0 .. (Len(ui.moveHistory) - 1) :
            /\ PointerFollowed(index + 1)
            /\ ui' = Handled(enterReviewMode(ui, index + 1), "enterReviewMode")
    /\ UNCHANGED <<engineVars, ai, call>>

\* the replay button
ToggleReplay ==
    /\ Len(ui.moveHistory) > 0
    /\ ReviewFollowed
    /\ \/ ui.reviewTimer
       \/ ui.isReviewMode /\ ui.reviewIndex < Len(ui.moveHistory)
       \/ PointerFollowed(0)
    /\ ui' = Handled(toggleReplay(ui), "toggleReplay")
    /\ UNCHANGED <<engineVars, ai, call>>

\* the replay interval fires
ReplayTick ==
    /\ ui.reviewTimer
    /\ ui' = Handled(replayTick(ui), "replayTick")
    /\ UNCHANGED <<engineVars, ai, call>>

\* the exit button of the history panel
ExitReviewMode ==
    /\ ui.isReviewMode
    /\ \E u \in {exitReviewMode(ui)} :
            /\ TimersFollowed(u)
            /\ ui' = Handled(u, "exitReviewMode")
    /\ UNCHANGED <<engineVars, ai, call>>

NextUI ==
    \/ HandleCellClick
    \/ MakeAIMove
    \/ Undo
    \/ ResetGame
    \/ HandleGameModeChange
    \/ HandlePlayerColorChange
    \/ StepReview
    \/ EnterReviewMode
    \/ ToggleReplay
    \/ ReplayTick
    \/ ExitReviewMode

SpecUI == InitUI /\ [][NextUI]_vars

\* the steps of MakeAIMove, told by what they leave in ui.  The first
\* disjunct is one such step, written so that ENABLED can be evaluated
\* without computing the AI's move
TimerFires ==
    \/ /\ ui.aiTimers > 0
       /\ ui' = [ui EXCEPT !.event = "makeAIMove", !.aiTimers = @ - 1]
       /\ UNCHANGED <<engineVars, ai, call>>
    \/ /\ ui.aiTimers > 0
       /\ ui'.event = "makeAIMove" /\ ui'.aiTimers = ui.aiTimers - 1

\* a pending timer fires in the end
SpecUIFair == InitUI /\ [][NextUI]_vars /\ WF_vars(TimerFires)

(***************************************************************************)
(* Properties of applyMove's guards.                                       *)
(***************************************************************************)
Live == DOMAIN engines

Occupied(e) ==
    {rc \in Idx \X Idx : boards[engines[e].board][rc[1]][rc[2]] # EMPTY}

\* applyMove(row, col) on engine e answers invalid/reason and changes nothing
Rejects(e, rc, reason) ==
    \E r \in {applyMove(Now, e, rc[1], rc[2])} :
        r.ret = Invalid(reason) /\ r.W = Now

\* C1: in every state with gameOver = true, applyMove on any coordinates
\* (outside the board, on an empty cell, on an occupied cell) returns invalid
\* with reason game-over and changes no field of the engine.
C1_GameOverRejectsEveryMove ==
    \A e \in Live :
        engines[e].gameOver =>
            \A rc \in MoveInputs \cup Occupied(e) : Rejects(e, rc, "game-over")

\* a finished game on which applyMove has just been refused, with an empty
\* cell among the inputs
C1_Witness ==
    /\ engines["e"].gameOver
    /\ last.op = "applyMove" /\ last.ret = Invalid("game-over")
    /\ \E rc \in InBoundsInputs : rc \notin Occupied("e")

\* C3 as stated: in every reachable state applyMove outside the board
\* returns invalid with reason out-of-bounds and changes nothing.
C3_OutOfBoundsAlways ==
    \A e \in Live : \A rc \in OutOfBoundsInputs : Rejects(e, rc, "out-of-bounds")

\* C3 amended: applyMove outside the board never changes the engine; its
\* reason is out-of-bounds while the game is running and game-over once the
\* game is over.
C3_OutOfBoundsWhileActive ==
    \A e \in Live : \A rc \in OutOfBoundsInputs :
        Rejects(e, rc, IF engines[e].gameOver THEN "game-over" ELSE "out-of-bounds")

\* a running game on which an out-of-bounds move has just been refused
C3_Witness ==
    /\ ~engines["e"].gameOver
    /\ last.op = "applyMove" /\ last.ret = Invalid("out-of-bounds")

\* C4 as stated: in every reachable state applyMove on an occupied in-bounds
\* cell returns invalid with reason occupied and changes nothing.
C4_OccupiedAlways ==
    \A e \in Live : \A rc \in Occupied(e) : Rejects(e, rc, "occupied")

\* C4 amended: applyMove on an occupied in-bounds cell never changes the
\* engine; its reason is occupied while the game is running and game-over
\* once the game is over.
C4_OccupiedWhileActive ==
    \A e \in Live : \A rc \in Occupied(e) :
        Rejects(e, rc, IF engines[e].gameOver THEN "game-over" ELSE "occupied")

\* a running game on which a move on a stone has just been refused
C4_Witness ==
    /\ ~engines["e"].gameOver
    /\ last.op = "applyMove" /\ last.ret = Invalid("occupied")
    /\ Occupied("e") \cap InBoundsInputs # {}

(***************************************************************************)
(* Leaving the Terminal state.                                             *)
(***************************************************************************)
\* C2 as stated: once gameOver is true it stays true after every operation
\* other than reset and loadState, undoLastMove(n) for any n included.
C2_TerminalAbsorbing ==
    [][(engines["e"].gameOver /\ last'.op \notin {"reset", "loadState"})
            => engines'["e"].gameOver]_vars

\* C2 amended: once gameOver is true it stays true after applyMove, after
\* undoLastMove(n) with n <= 0, and after clone, toJSON and fromState;
\* undoLastMove(n) with n >= 1 always sets it to false.
C2_TerminalUntilUndo ==
    [][engines["e"].gameOver =>
            /\ last'.op \in {"applyMove", "clone", "fromState", "discard"}
                    => engines'["e"].gameOver
            /\ \A steps \in UndoInputs :
                    (last'.op = "undoLastMove" /\ UndoStep("e", steps))
                        => (engines'["e"].gameOver <=> steps <= 0)]_vars

\* a finished game that is still finished after an undoLastMove call
C2_Witness ==
    /\ engines["e"].gameOver
    /\ last.op = "undoLastMove" /\ last.target = "e"

(***************************************************************************)
(* Undo and replay.                                                        *)
(***************************************************************************)
Reverse(seq) == [i \in 1 .. Len(seq) |-> seq[Len(seq) + 1 - i]]

\* applyMove on the cells of moves, first to last
RECURSIVE replay(_, _, _, _)
replay(W, e, moves, i) ==
    IF i > Len(moves) THEN W
    ELSE replay(applyMove(W, e, moves[i].row, moves[i].col).W, e, moves, i + 1)

\* C5: in every state reached from a fresh engine by applyMove calls alone,
\* for any maxHistory and every k >= 1, undoLastMove(k) followed by applyMove
\* on the removed moves' cells in playing order gives back the same board
\* and the same current player.
C5_UndoThenReplayRestores ==
    onlyMoves =>
        \A k \in 1 .. MaxUndoSteps :
            \E u \in {undoLastMove(Now, "e", k)} :
            \E W \in {replay(u.W, "e", Reverse(u.ret), 1)} :
                /\ boardOf(W, "e") = boardOf(Now, "e")
                /\ W.eng["e"].currentPlayer = engines["e"].currentPlayer

(***************************************************************************)
(* loadState, toJSON / fromState and clone.                                *)
(***************************************************************************)
\* C6: a loadState call that throws leaves board, starting player, current
\* player, move history, last move, gameOver and winning sequence exactly
\* as they were before the call.
C6_LoadStateAtomicOnFailure ==
    [][(last'.op = "loadState" /\ last'.ret.threw)
            => (engines' = engines /\ boards' = boards /\ hists' = hists)]_vars

\* C7: in every reachable state of e, GomokuEngine.fromState(e.toJSON())
\* returns an engine with the same isGameOver(), the same winning sequence
\* (same cells, same order) and the same board contents as e.
C7_RoundTripReproduces ==
    last.op = "fromState" =>
        /\ ~last.ret.threw
        /\ "c" \in Live
        /\ engines["c"].gameOver = engines["e"].gameOver
        /\ engines["c"].winningSequence = engines["e"].winningSequence
        /\ boardOf(Now, "c") = boardOf(Now, "e")

\* the fields of engine x that applyMove and undoLastMove on another engine
\* must not change
Observed(W, x) ==
    [board |-> boardOf(W, x), moveHistory |-> historyOf(W, x),
     currentPlayer |-> W.eng[x].currentPlayer, gameOver |-> W.eng[x].gameOver]

Untouched(W, x) == Observed(W, x) = Observed(Now, x)

\* C8: clone() returns an engine equal to the original in board, move
\* history, current player, starting player, gameOver and winning sequence,
\* and no applyMove or undoLastMove on one of the two changes the other.
C8_CloneEqualAndIndependent ==
    last.op = "clone" =>
        /\ ~last.ret.threw
        /\ "c" \in Live
        /\ boardOf(Now, "c") = boardOf(Now, "e")
        /\ historyOf(Now, "c") = historyOf(Now, "e")
        /\ \A f \in {"currentPlayer", "startingPlayer", "gameOver", "winningSequence"} :
                engines["c"][f] = engines["e"][f]
        /\ \A rc \in MoveInputs :
                /\ Untouched(applyMove(Now, "c", rc[1], rc[2]).W, "e")
                /\ Untouched(applyMove(Now, "e", rc[1], rc[2]).W, "c")
        /\ \A steps \in UndoInputs :
                /\ Untouched(undoLastMove(Now, "c", steps).W, "e")
                /\ Untouched(undoLastMove(Now, "e", steps).W, "c")

(***************************************************************************)
(* AIPlayer.makeMove.                                                      *)
(***************************************************************************)
Returned_makeMove == ai.phase = "returned" /\ ~ai.threw

\* C9: for every board of the expected shape (empty, partly filled or
\* full), either colour and each tier, the board after makeMove returns is
\* cell for cell the board before the call.
C9_BoardUnchanged == Returned_makeMove => ai.board = ai.before

\* a stone of player on the empty cell (row, col) would lie in five
\* consecutive cells of one axis that all hold player's stones
CompletesFive(board, row, col, player) ==
    \E i \in 1 .. Len(directions) : \E k \in 0 .. 4 :
        \A j \in 0 .. 4 :
            LET r == row + (j - k) * directions[i][1]
                c == col + (j - k) * directions[i][2]
            IN  /\ r \in AIIdx /\ c \in AIIdx
                /\ j # k => board[r][c] = player

WinningCells(board, player) ==
    {rc \in AIIdx \X AIIdx :
        board[rc[1]][rc[2]] = EMPTY /\ CompletesFive(board, rc[1], rc[2], player)}

FirstRowMajor(cells) ==
    LET rc == CHOOSE x \in cells :
                \A y \in cells : x[1] < y[1] \/ (x[1] = y[1] /\ x[2] <= y[2])
    IN  Cell(rc[1], rc[2])

OwnWins == WinningCells(ai.before, ai.self.playerColor)
OpponentWins == WinningCells(ai.before, 3 - ai.self.playerColor)

\* C10: in each tier, when some empty cell completes five for the AI's
\* colour makeMove returns the first such cell in row-major order;
\* otherwise, when some empty cell completes five for the opponent, it
\* returns the first of those in row-major order.
C10_WinThenBlockFirst ==
    Returned_makeMove =>
        IF OwnWins # {} THEN ai.move = FirstRowMajor(OwnWins)
        ELSE OpponentWins # {} => ai.move = FirstRowMajor(OpponentWins)

\* the hard tier took the first of two winning cells
C10_Witness ==
    /\ Returned_makeMove /\ ai.self.difficulty = "hard"
    /\ Cardinality(OwnWins) >= 2
    /\ ai.move = FirstRowMajor(OwnWins)

(***************************************************************************)
(* The open three of ai-player.spec.js: Black at (10,2), (10,3), (10,4),   *)
(* the AI plays White.                                                     *)
(***************************************************************************)
OpenThreeCall ==
    Returned_makeMove /\ ai.before = OpenThreeBoard /\ ai.self.playerColor = WHITE

\* C11 as stated: on the open three the AI playing White returns (10,1) or
\* (10,6) at every tier, the easy tier with any random source.
C11_BlocksAtEveryTier == OpenThreeCall => ai.move \in {Cell(10, 1), Cell(10, 6)}

\* the three best-ranked cells for White on the open three: the two ends of
\* the three, then the first neighbour found
OpenThreeTopChoices == <<Cell(10, 1), Cell(10, 5), Cell(9, 1)>>

\* C11: on the open three the medium and the hard tier return (10,1); the
\* easy tier returns (10,1) when random() < 1/3, (10,5) when
\* 1/3 <= random() < 2/3 and (9,1), which blocks nothing, otherwise.
C11_BlocksUnlessEasyRandom ==
    OpenThreeCall =>
        ai.move = IF ai.self.difficulty = "easy"
                  THEN OpenThreeTopChoices[(ai.self.random * 3) \div RandomSteps + 1]
                  ELSE Cell(10, 1)

\* the hard tier blocked the open three at (10,1)
C11_Witness == OpenThreeCall /\ ai.self.difficulty = "hard" /\ ai.move = Cell(10, 1)

(***************************************************************************)
(* The move makeMove returns.                                              *)
(***************************************************************************)
\* BOARD_SIZE rows of BOARD_SIZE cells each
ExpectedShape(board) ==
    /\ DOMAIN board = AIIdx
    /\ \A r \in AIIdx : DOMAIN board[r] = AIIdx

HasEmptyCell(board) == \E r \in AIIdx : \E c \in AIIdx : board[r][c] = EMPTY

\* C12: for every board of the expected shape and every tier, when the
\* board has an empty cell makeMove returns a cell that is in bounds and
\* was empty on the board it was handed; it returns null only when the
\* board has no empty cell.
C12_ReturnsEmptyCell ==
    (Returned_makeMove /\ ExpectedShape(ai.before)) =>
        /\ HasEmptyCell(ai.before) =>
                /\ ai.move.row \in AIIdx /\ ai.move.col \in AIIdx
                /\ ai.before[ai.move.row][ai.move.col] = EMPTY
        /\ ai.move = NoCell => ~HasEmptyCell(ai.before)

\* the hard tier took the only empty cell of a board whose centre is occupied
C12_Witness ==
    /\ Returned_makeMove /\ ai.self.difficulty = "hard"
    /\ ai.before = OneEmptyBoard /\ ai.move = Cell(0, 0)

(***************************************************************************)
(* Properties of determineWinningSequence.                                 *)
(***************************************************************************)
Returned_determineWinningSequence ==
    call.op = "determineWinningSequence" /\ call.phase = "returned"

\* the cell k steps from (row, col) along axis d
Step(row, col, d, k) == Cell(row + k * d[1], col + k * d[2])

\* (row, col) lies in a window of five cells of its own colour along axis d
OnFiveAlong(board, row, col, d) ==
    \E s \in 0 .. 4 : \A k \in 0 .. 4 :
        LET x == Step(row, col, d, k - s)
        IN  /\ x.row \in DOMAIN board
            /\ x.col \in DOMAIN board[x.row]
            /\ board[x.row][x.col] = board[row][col]

\* seq lists, each once, the cells of a contiguous stretch through (row, col)
\* along axis d
ContiguousThrough(seq, row, col, d) ==
    \E a \in (-LineBoardSize) .. 0 : \E b \in 0 .. LineBoardSize :
        /\ Len(seq) = b - a + 1
        /\ {seq[n] : n \in 1 .. Len(seq)} = {Step(row, col, d, k) : k \in a .. b}

\* C13: when the origin stone lies on a run of five or more of its colour,
\* the result lists at least five distinct, collinear, contiguous cells of
\* that colour, the origin among them; when the origin is empty or no axis
\* through it holds such a run, there is no result.
C13_RunThroughOrigin ==
    Returned_determineWinningSequence =>
        LET board == call.board
            onFive == /\ board[call.row][call.col] # EMPTY
                      /\ \E n \in 1 .. Len(directions) :
                            OnFiveAlong(board, call.row, call.col, directions[n])
            seq == call.ret.sequence
        IN  IF onFive
            THEN /\ Len(seq) >= 5
                 /\ \A n \in 1 .. Len(seq) :
                        board[seq[n].row][seq[n].col] = board[call.row][call.col]
                 /\ \E n \in 1 .. Len(directions) :
                        ContiguousThrough(seq, call.row, call.col, directions[n])
            ELSE call.ret = NoWin

\* the origin is an interior stone of a run of six
C13_Witness ==
    /\ Returned_determineWinningSequence
    /\ Len(call.ret.sequence) = 6
    /\ call.ret.sequence[1] = Cell(call.row, call.col)
    /\ \E n \in 2 .. 6 : call.ret.sequence[n].col < call.col
    /\ \E n \in 2 .. 6 : call.ret.sequence[n].col > call.col

\* the axes, as (row step, column step), in the order row, column, main
\* diagonal, anti-diagonal
RowFirstOrder == << <<0, 1>>, <<1, 0>>, <<1, 1>>, <<1, -1>> >>

\* the axes in the order column, row, main diagonal, anti-diagonal
ColumnFirstOrder == << <<1, 0>>, <<0, 1>>, <<1, 1>>, <<1, -1>> >>

\* the origin of the call lies on a run of five or more along the n-th axis
QualifiesAlong(order, n) ==
    /\ call.board[call.row][call.col] # EMPTY
    /\ OnFiveAlong(call.board, call.row, call.col, order[n])

\* the origin qualifies along two axes or more, and the result is the run of
\* the first of them in the given order
FirstQualifyingAxisIn(order) ==
    (/\ Returned_determineWinningSequence
     /\ \E m \in 1 .. 4 : \E n \in 1 .. 4 :
            m # n /\ QualifiesAlong(order, m) /\ QualifiesAlong(order, n)) =>
        \E n \in 1 .. 4 :
            /\ QualifiesAlong(order, n)
            /\ \A m \in 1 .. (n - 1) : ~QualifiesAlong(order, m)
            /\ ContiguousThrough(call.ret.sequence, call.row, call.col, order[n])

InconsistentEntry(state, entry) ==
    \/ entry.row \notin Idx
    \/ entry.col \notin Idx
    \/ /\ entry.row \in DOMAIN state.board
       /\ entry.col \in DOMAIN state.board[entry.row]
       /\ state.board[entry.row][entry.col] # entry.player

HasInconsistentEntry(state) ==
    /\ "board" \in DOMAIN state
    /\ "moveHistory" \in DOMAIN state
    /\ \E i \in 1 .. Len(state.moveHistory) : InconsistentEntry(state, state.moveHistory[i])

\* the board has the configured size and only Empty/Black/White cells, and
\* every history entry agrees with it
ConsistentSnapshot(state) ==
    /\ "board" \in DOMAIN state
    /\ DOMAIN state.board = Idx
    /\ \A r \in Idx : DOMAIN state.board[r] = Idx
    /\ \A r \in Idx : \A c \in Idx : state.board[r][c] \in {EMPTY, BLACK, WHITE}
    /\ ~HasInconsistentEntry(state)

\* C15: loadState throws, and loads nothing, whenever a history entry is out
\* of bounds or names a player that differs from the stone on the board at
\* its cell; it succeeds for every snapshot whose board has the configured
\* size, holds only Empty/Black/White cells and agrees with every entry.
C15_RejectsInconsistentHistory ==
    [][last'.op = "loadState" =>
            /\ HasInconsistentEntry(last'.state) =>
                    /\ last'.ret.threw
                    /\ engines' = engines /\ boards' = boards /\ hists' = hists
            /\ ConsistentSnapshot(last'.state) => ~last'.ret.threw]_vars

Loaded == last.op = "loadState" /\ ~last.ret.threw

\* some stone of the board lies on a run of five or more
HasRunOfFive(board) ==
    \E r \in DOMAIN board : \E c \in DOMAIN board[r] :
        /\ board[r][c] # EMPTY
        /\ \E n \in 1 .. 4 : OnFiveAlong(board, r, c, ColumnFirstOrder[n])

HasNoEmptyCell(board) ==
    \A r \in DOMAIN board : \A c \in DOMAIN board[r] : board[r][c] # EMPTY

\* C16: after every successful loadState, gameOver is true exactly when the
\* loaded board holds a run of five or more same-colour stones anywhere or
\* has no empty cell; the winning sequence is non-empty exactly when it
\* holds such a run.
C16_InfersTerminalStatus ==
    Loaded =>
        LET board == boardOf(Now, "e")
        IN  /\ engines["e"].gameOver <=> (HasRunOfFive(board) \/ HasNoEmptyCell(board))
            /\ engines["e"].winningSequence # <<>> <=> HasRunOfFive(board)

\* a loaded board whose run of five does not pass through the last recorded move
C16_Witness ==
    /\ Loaded
    /\ engines["e"].gameOver
    /\ Len(engines["e"].winningSequence) >= 5
    /\ \A n \in 1 .. Len(engines["e"].winningSequence) :
            /\ engines["e"].winningSequence[n].row # engines["e"].lastMove.row
            /\ boardOf(Now, "e")[engines["e"].winningSequence[n].row]
                                [engines["e"].winningSequence[n].col] = BLACK
    /\ engines["e"].lastMove.player = WHITE

(***************************************************************************)
(* The history limit.                                                      *)
(***************************************************************************)
\* the last m entries of seq
LastN(seq, m) == IF Len(seq) > m THEN SubSeq(seq, Len(seq) - m + 1, Len(seq)) ELSE seq

IsSuffix(seq, whole) == Len(seq) <= Len(whole) /\ seq = LastN(whole, Len(seq))

\* what every operation on e leaves of the history when it is limited to m:
\* at most m entries; an accepted applyMove appends its move and drops the
\* oldest entry beyond m, whose stone stays where it is; a successful
\* loadState keeps the last m entries of the snapshot's history
HistoryLimitSteps ==
    LET m == engines'["e"].maxHistory
        before == historyOf(Now, "e")
        after == hists'[engines'["e"].moveHistory]
    IN  /\ Len(after) <= m
        /\ (last'.op = "applyMove" /\ last'.target = "e") =>
                /\ last'.ret.status # "invalid" =>
                        after = LastN(Append(before, engines'["e"].lastMove), m)
                /\ (/\ last'.ret.status # "invalid"
                    /\ Len(before) = m
                    /\ boardOf(Now, "e")[before[1].row][before[1].col] = before[1].player) =>
                        boards'[engines'["e"].board][before[1].row][before[1].col]
                            = before[1].player
        /\ (last'.op = "loadState" /\ ~last'.ret.threw) => after = LastN(played', m)

Finished_makeMove == ai.phase = "returned"

\* a call that gets past both argument checks
AcceptedCall ==
    Finished_makeMove /\ ExpectedShape(ai.before) /\ ai.self.difficulty \in Difficulties

\* the sink was called once, with the move makeMove goes on to return
SinkCalledOnceWithMove ==
    ai.events = <<[move |-> ai.move,
                   result |-> IF ai.move # NoCell THEN "move-selected" ELSE "no-move"]>>

\* the move the same player returns for the same board without a sink
MoveWithoutSink == makeMove(ai.before, [ai.self EXCEPT !.telemetry = "none"]).move

\* C17: with a telemetry sink configured, a makeMove call that returns calls
\* the sink exactly once, after the move is chosen; whether the sink is
\* absent, returns or throws, makeMove returns the same move for the same
\* board and random value, lets no exception of the sink through, and
\* leaves the board unchanged.
C17_TelemetryOnceAndHarmless ==
    AcceptedCall =>
        /\ ~ai.threw
        /\ ai.self.telemetry # "none" => SinkCalledOnceWithMove
        /\ ai.self.telemetry # "none" => ai.move = MoveWithoutSink
        /\ ai.board = ai.before

\* C18: makeMove throws 'Invalid board state' for every board that is not
\* BOARD_SIZE rows of BOARD_SIZE cells, whichever row is wrong, and 'Invalid
\* difficulty level' for a difficulty other than easy, medium and hard; in
\* both cases it returns no move and does not modify the board.
C18_RejectsBadArguments ==
    Finished_makeMove =>
        /\ ~ExpectedShape(ai.before) =>
                /\ ai.threw /\ ai.error = "Invalid board state"
                /\ ai.move = NoCell /\ ai.board = ai.before
        /\ (ExpectedShape(ai.before) /\ ai.self.difficulty \notin Difficulties) =>
                /\ ai.threw /\ ai.error = "Invalid difficulty level"
                /\ ai.move = NoCell /\ ai.board = ai.before

(***************************************************************************)
(* Properties of getAvailableMoves.                                        *)
(***************************************************************************)
Returned_getAvailableMoves == last.op = "getAvailableMoves"

AllCells == {Cell(r, c) : r \in Idx, c \in Idx}

StoneCells(board) == {x \in AllCells : board[x.row][x.col] # EMPTY}

EmptyCells(board) == {x \in AllCells : board[x.row][x.col] = EMPTY}

\* the empty cells with a stone on one of the eight cells around them
CellsNearStones(board) ==
    {x \in EmptyCells(board) :
        \E y \in StoneCells(board) :
            y.row - x.row \in (-1) .. 1 /\ y.col - x.col \in (-1) .. 1}

\* seq lists every element of set once and nothing else
ListsEachOnce(seq, set) ==
    /\ {seq[n] : n \in 1 .. Len(seq)} = set
    /\ Len(seq) = Cardinality(set)

\* C20: on a board without stones getAvailableMoves returns the centre cell
\* alone, whatever vicinityOnly is; otherwise, with vicinityOnly, it returns
\* the empty cells that have an occupied 8-neighbour, each once, or, when
\* there is none, all the empty cells; every returned cell is in bounds and
\* empty, and applyMove on it while the game is active is never invalid.
C20_AvailableMoves ==
    /\ Returned_getAvailableMoves =>
        LET board == boardOf(Now, "e")
            near == CellsNearStones(board)
        IN  /\ StoneCells(board) = {} =>
                    last.ret = <<Cell(EngineBoardSize \div 2, EngineBoardSize \div 2)>>
            /\ (StoneCells(board) # {} /\ last.vicinityOnly) =>
                    ListsEachOnce(last.ret, IF near # {} THEN near ELSE EmptyCells(board))
            /\ \A n \in 1 .. Len(last.ret) : last.ret[n] \in EmptyCells(board)
    /\ (last.op = "applyMove" /\ "available" \in DOMAIN last) =>
            \/ last.ret.status # "invalid"
            \/ last.ret.reason = "game-over"

\* a stone with an empty cell that touches it by a corner only: the cell is
\* returned, and played
C20_Witness ==
    /\ last.op = "applyMove" /\ "available" \in DOMAIN last
    /\ last.ret.status = "continue"
    /\ Len(played) = 2
    /\ played[2].row # played[1].row /\ played[2].col # played[1].col
    /\ played[2].row - played[1].row \in {-1, 1}
    /\ played[2].col - played[1].col \in {-1, 1}

(***************************************************************************)
(* What applyMove and undoLastMove do to the board and the turn.           *)
(***************************************************************************)
BoardBefore == boardOf(Now, "e")
BoardAfter == boards'[engines'["e"].board]

\* the cells of e's board that the step changes
ChangedCells == {rc \in Idx \X Idx : BoardAfter[rc[1]][rc[2]] # BoardBefore[rc[1]][rc[2]]}

Accepted_applyMove ==
    last'.op = "applyMove" /\ last'.target = "e" /\ last'.ret.status # "invalid"

\* C22: every successful applyMove places exactly one stone, of the colour
\* that was currentPlayer before the call, at the given cell and changes no
\* other cell; currentPlayer flips to the other colour exactly when the
\* outcome is continue and stays the mover's colour on win and on draw.
C22_OneStoneAndTurn ==
    [][Accepted_applyMove =>
            LET mover == engines["e"].currentPlayer
                move == engines'["e"].lastMove
            IN  /\ ChangedCells = {<<move.row, move.col>>}
                /\ BoardBefore[move.row][move.col] = EMPTY
                /\ BoardAfter[move.row][move.col] = mover
                /\ move.player = mover
                /\ engines'["e"].currentPlayer =
                        IF last'.ret.status = "continue" THEN 3 - mover ELSE mover]_vars

\* White has just played and it is Black's turn again
C22_Witness ==
    /\ last.op = "applyMove" /\ last.ret.status = "continue"
    /\ engines["e"].lastMove.player = WHITE
    /\ engines["e"].currentPlayer = BLACK
    /\ boardOf(Now, "e")[engines["e"].lastMove.row][engines["e"].lastMove.col] = WHITE

Called_undoLastMove == last'.op = "undoLastMove" /\ last'.target = "e"

\* C23: undoLastMove(n) removes the min(n, history length) most recent
\* history entries (none for n <= 0), sets the removed moves' cells, and no
\* other cell, to Empty, returns the removed moves most recent first, and,
\* when it removed a move, sets currentPlayer to the opponent of the new
\* last history entry, or to the starting player when the history is empty.
C23_UndoRemovesMostRecent ==
    [][Called_undoLastMove =>
            LET before == historyOf(Now, "e")
                after == hists'[engines'["e"].moveHistory]
                removed == last'.ret
                k == Min(Max(last'.steps, 0), Len(before))
            IN  /\ Len(removed) = k
                /\ after = SubSeq(before, 1, Len(before) - k)
                /\ \A n \in 1 .. k : removed[n] = before[Len(before) - n + 1]
                /\ \A n \in 1 .. k : BoardAfter[removed[n].row][removed[n].col] = EMPTY
                /\ ChangedCells \subseteq {<<removed[n].row, removed[n].col>> : n \in 1 .. k}
                /\ k > 0 =>
                        engines'["e"].currentPlayer =
                            IF Len(after) > 0 THEN 3 - after[Len(after)].player
                            ELSE engines'["e"].startingPlayer
                /\ k = 0 => engines'["e"].currentPlayer = engines["e"].currentPlayer]_vars

\* two moves were removed at once and the first of them is the later one
C23_Witness ==
    /\ last.op = "undoLastMove" /\ last.steps = 2
    /\ Len(last.ret) = 2
    /\ last.ret[1].player # last.ret[2].player
    /\ boardOf(Now, "e")[last.ret[1].row][last.ret[1].col] = EMPTY
    /\ boardOf(Now, "e")[last.ret[2].row][last.ret[2].col] = EMPTY

\* C24 as stated: after any undoLastMove(n) call, for every n including 0
\* and whether or not a move was removed, gameOver is false and the winning
\* sequence is empty, even when the board still holds a five or is full.
C24_UndoAlwaysReopens ==
    (last.op = "undoLastMove" /\ last.target = "e") =>
        (~engines["e"].gameOver /\ engines["e"].winningSequence = <<>>)

\* C24 as the code has it: after undoLastMove(n) with n >= 1, whether or not
\* a move was removed, gameOver is false and the winning sequence is empty,
\* even when the board still holds a five or is full; with n <= 0 the call
\* returns at once and leaves both as they were.
C24_UndoReopensFromOneStep ==
    [][Called_undoLastMove =>
            IF last'.steps >= 1
            THEN ~engines'["e"].gameOver /\ engines'["e"].winningSequence = <<>>
            ELSE /\ engines'["e"].gameOver = engines["e"].gameOver
                 /\ engines'["e"].winningSequence = engines["e"].winningSequence]_vars

\* an undo that removed nothing reopened a game whose board still holds a five
C24_Witness ==
    /\ last.op = "undoLastMove" /\ last.steps >= 1 /\ last.ret = <<>>
    /\ HasRunOfFive(boardOf(Now, "e"))
    /\ ~engines["e"].gameOver

\* C25: applyMove looks for a win before it looks for a draw: a legal move
\* that fills the last empty cell and completes a run of five or more
\* returns win, with a non-empty winning sequence; draw is returned only
\* when the board becomes full and the placed stone completes no such run.
C25_WinBeforeDraw ==
    [][Accepted_applyMove =>
            LET move == engines'["e"].lastMove
                completes == \E n \in 1 .. 4 :
                                OnFiveAlong(BoardAfter, move.row, move.col, ColumnFirstOrder[n])
            IN  /\ completes =>
                        /\ last'.ret.status = "win"
                        /\ Len(engines'["e"].winningSequence) >= 5
                        /\ engines'["e"].gameOver
                /\ last'.ret.status = "draw" <=> (HasNoEmptyCell(BoardAfter) /\ ~completes)]_vars

\* the winning stone went on the last empty cell
C25_Witness ==
    /\ last.op = "applyMove" /\ last.ret.status = "win"
    /\ HasNoEmptyCell(boardOf(Now, "e"))
    /\ engines["e"].winningSequence # <<>>

(***************************************************************************)
(* Properties of the evaluation functions.                                 *)
(***************************************************************************)
Returned_scoreLinesForPlayer == call.op = "scoreLinesForPlayer" /\ call.phase = "returned"

\* the weight of a run by its length and its number of open ends
RunWeight(length, openEnds) ==
    IF length >= 5 THEN 1000000
    ELSE IF openEnds = 2
    THEN (IF length = 4 THEN 60000 ELSE IF length = 3 THEN 7000
          ELSE IF length = 2 THEN 800 ELSE 0)
    ELSE IF openEnds = 1
    THEN (IF length = 4 THEN 15000 ELSE IF length = 3 THEN 2000
          ELSE IF length = 2 THEN 250 ELSE 0)
    ELSE 0

HoldsAt(board, row, col, value) ==
    row \in AIIdx /\ col \in AIIdx /\ board[row][col] = value

\* the maximal runs of player's stones that start in the given row: a run
\* starts where the cell holds player and the cell before it along the axis
\* does not
MaximalRunsFrom(board, player, row) ==
    {[row |-> row, col |-> x[1], d |-> ColumnFirstOrder[x[2]]] :
        x \in {y \in AIIdx \X (1 .. 4) :
                /\ board[row][y[1]] = player
                /\ ~HoldsAt(board, row - ColumnFirstOrder[y[2]][1],
                            y[1] - ColumnFirstOrder[y[2]][2], player)}}

RunLength(board, player, run) ==
    CHOOSE n \in 1 .. BOARD_SIZE :
        /\ \A k \in 0 .. (n - 1) :
                HoldsAt(board, run.row + k * run.d[1], run.col + k * run.d[2], player)
        /\ ~HoldsAt(board, run.row + n * run.d[1], run.col + n * run.d[2], player)

OpenEnds(board, player, run) ==
    LET n == RunLength(board, player, run)
    IN  (IF HoldsAt(board, run.row - run.d[1], run.col - run.d[2], EMPTY) THEN 1 ELSE 0)
      + (IF HoldsAt(board, run.row + n * run.d[1], run.col + n * run.d[2], EMPTY)
         THEN 1 ELSE 0)

RECURSIVE SumOfWeights(_, _, _)
SumOfWeights(board, player, runs) ==
    IF runs = {} THEN 0
    ELSE LET run == CHOOSE x \in runs : TRUE
         IN  RunWeight(RunLength(board, player, run), OpenEnds(board, player, run))
                + SumOfWeights(board, player, runs \ {run})

RECURSIVE SumOverRows(_, _, _)
SumOverRows(board, player, row) ==
    IF row >= BOARD_SIZE THEN 0
    ELSE SumOfWeights(board, player, MaximalRunsFrom(board, player, row))
            + SumOverRows(board, player, row + 1)

\* C28: scoreLinesForPlayer(board, p) is the sum, over the maximal runs of
\* p's stones along the four axes, each run counted once, of the weight for
\* (run length, open ends): 1,000,000 for length >= 5; 60,000 / 7,000 / 800
\* for length 4 / 3 / 2 with two open ends and 15,000 / 2,000 / 250 with
\* one; 0 for a run with no open end and for a single stone.
C28_SumOfRunWeights ==
    Returned_scoreLinesForPlayer => call.ret = SumOverRows(call.board, call.player, 0)

\* a run of four with a single open end, at the edge of the board
C28_Witness ==
    /\ Returned_scoreLinesForPlayer
    /\ call.player = BLACK
    /\ call.ret = 15000
    /\ call.board[0][0] = BLACK /\ call.board[0][3] = BLACK /\ call.board[0][4] = EMPTY

Returned_evaluateBoard == call.op = "evaluateBoard" /\ call.phase = "returned"

\* C29: evaluateBoard is zero-sum: evaluateBoard(board, Black) is
\* -evaluateBoard(board, White) for every board, and evaluateBoard of a
\* board with no stones is 0.
C29_ZeroSum ==
    Returned_evaluateBoard =>
        /\ call.ret = -evaluateBoard(call.board, 3 - call.perspective)
        /\ call.board = EmptyBoard => call.ret = 0

\* a board on which the two colours' scores differ
C29_Witness ==
    /\ Returned_evaluateBoard
    /\ call.perspective = WHITE
    /\ call.ret < 0
    /\ evaluateBoard(call.board, BLACK) = -call.ret

Returned_prepareCandidates == call.op = "prepareCandidates" /\ call.phase = "returned"

AICells == {Cell(r, c) : r \in AIIdx, c \in AIIdx}

\* the empty cells of the board that touch a stone, corners included
AdjacentEmptyCells(board) ==
    {x \in AICells :
        /\ board[x.row][x.col] = EMPTY
        /\ \E dr \in (-1) .. 1 : \E dc \in (-1) .. 1 :
                /\ x.row + dr \in AIIdx /\ x.col + dc \in AIIdx
                /\ board[x.row + dr][x.col + dc] # EMPTY}

\* the evaluation of the board of the call with the cell played by its player
PlayedEvaluation(x) ==
    evaluateBoard([call.board EXCEPT ![x.row][x.col] = call.player], call.perspective)

\* C30: on a board with a stone and an empty cell, prepareCandidates(board,
\* limit, player) returns at most limit entries, each a distinct empty cell
\* that is 8-adjacent to an occupied cell, in non-increasing order of the
\* evaluation of the board with that cell played by player, and no omitted
\* adjacent empty cell has a strictly higher evaluation than a returned
\* one; on a board with no stones it returns just the centre cell.
C30_RankedAdjacentCells ==
    Returned_prepareCandidates =>
        LET ranked == call.ret
            cells == [n \in 1 .. Len(ranked) |-> Cell(ranked[n].row, ranked[n].col)]
            returned == {cells[n] : n \in 1 .. Len(cells)}
            adjacent == AdjacentEmptyCells(call.board)
        IN  /\ (call.board # EmptyBoard /\ HasEmptyCell(call.board)) =>
                    /\ Len(ranked) = Min(call.limit, Cardinality(adjacent))
                    /\ Cardinality(returned) = Len(ranked)
                    /\ returned \subseteq adjacent
                    /\ \A n \in 1 .. Len(ranked) : ranked[n].score = PlayedEvaluation(cells[n])
                    /\ \A n \in 1 .. (Len(ranked) - 1) : ranked[n].score >= ranked[n + 1].score
                    /\ \A x \in adjacent \ returned : \A n \in 1 .. Len(ranked) :
                            PlayedEvaluation(x) <= ranked[n].score
            /\ call.board = EmptyBoard =>
                    cells = <<Cell(BOARD_SIZE \div 2, BOARD_SIZE \div 2)>>

\* three candidates kept out of more, with different evaluations, for the
\* opponent of the player the board is evaluated for
C30_Witness ==
    /\ Returned_prepareCandidates
    /\ call.limit = 3 /\ Len(call.ret) = 3
    /\ call.player # call.perspective
    /\ call.ret[1].score > call.ret[3].score
    /\ Cardinality(AdjacentEmptyCells(call.board)) > 3

(***************************************************************************)
(* The medium tier's choice among its candidates.                          *)
(***************************************************************************)
\* a medium call on a board with an empty cell where neither side can win at once
MediumSearchCall ==
    /\ AcceptedCall /\ ai.self.difficulty = "medium"
    /\ HasEmptyCell(ai.before)
    /\ winOrBlock(ai.before, ai.self).move = NoCell

\* the ranked candidates of the call
MediumCandidates ==
    prepareCandidates(ai.before, MEDIUM_CANDIDATE_LIMIT,
                      ai.self.playerColor, ai.self.playerColor).ranked

\* the least evaluation, for the AI, of the board with the candidate and one
\* of the opponent's ranked replies played; the evaluation of the board with
\* the candidate when the opponent has no cell to reply on
WorstCaseScore(c) ==
    LET own == ai.self.playerColor
        opponent == getOpponentColor(own)
        placed == [ai.before EXCEPT ![c.row][c.col] = own]
        replies == IF HasEmptyCell(placed)
                   THEN prepareCandidates(placed, MEDIUM_RESPONSE_LIMIT, opponent, own).ranked
                   ELSE <<>>
        after(n) == evaluateBoard([placed EXCEPT ![replies[n].row][replies[n].col] = opponent], own)
    IN  IF Len(replies) = 0 THEN evaluateBoard(placed, own)
        ELSE CHOOSE least \in {after(n) : n \in 1 .. Len(replies)} :
                \A n \in 1 .. Len(replies) : least <= after(n)

\* the first of the candidates whose score none of the others exceeds
FirstOfTheBest(candidates, scores) ==
    LET n == CHOOSE k \in 1 .. Len(candidates) :
                /\ \A j \in 1 .. Len(candidates) : scores[j] <= scores[k]
                /\ \A j \in 1 .. (k - 1) : scores[j] < scores[k]
    IN  Cell(candidates[n].row, candidates[n].col)

\* C27: in the medium tier, when neither side has an immediate win, each of
\* the at most 12 ranked candidates is scored by the least evaluation, from
\* the AI's perspective, of the board after the candidate and one of the at
\* most 6 ranked replies of the opponent (by the evaluation of the board
\* after the candidate when there is no reply), and makeMove returns the
\* first candidate in ranking order whose score is maximal.
C27_FirstBestWorstCase ==
    MediumSearchCall =>
        \E candidates \in {MediumCandidates} :
            /\ Len(candidates) \in 1 .. MEDIUM_CANDIDATE_LIMIT
            /\ \E scores \in {[n \in 1 .. Len(candidates) |-> WorstCaseScore(candidates[n])]} :
                    ai.move = FirstOfTheBest(candidates, scores)

\* a medium search where several candidates share the best score and a
\* candidate scores less than the first in the ranking
C27_Witness ==
    /\ MediumSearchCall
    /\ \E candidates \in {MediumCandidates} :
            /\ Len(candidates) > 1
            /\ \E scores \in {[n \in 1 .. Len(candidates) |-> WorstCaseScore(candidates[n])]} :
                    /\ ai.move = FirstOfTheBest(candidates, scores)
                    /\ \E j, k \in 1 .. Len(candidates) :
                            /\ j < k /\ scores[j] = scores[k]
                            /\ \A m \in 1 .. Len(candidates) : scores[m] <= scores[k]
                    /\ \E m \in 1 .. Len(candidates) : scores[m] < scores[1]

(***************************************************************************)
(* Self-play.                                                              *)
(***************************************************************************)
InGame == call.op = "playGame"

\* the engine's board and the number of stones on it
GameBoard == boards[engines["e"].board]

StonesOnGameBoard ==
    Cardinality({x \in AICells : GameBoard[x.row][x.col] # EMPTY})

\* the colour that made the n-th move of the game
MoverOf(n) == IF n % 2 = 1 THEN BLACK ELSE WHITE

Returned_undo == ui.event = "undo"

\* the colours of the first n moves undo removed
RemovedColors(n) == {ui.removedMoves[i].player : i \in 1 .. n}

\* undo removed the most recent recorded moves, the latest first
RemovedMostRecent ==
    /\ Len(ui.removedMoves) >= 1
    /\ Len(ui.recorded) = Len(ui.moveHistory) + Len(ui.removedMoves)
    /\ ui.moveHistory = SubSeq(ui.recorded, 1, Len(ui.moveHistory))
    /\ \A i \in 1 .. Len(ui.removedMoves) :
            ui.removedMoves[i] = ui.recorded[Len(ui.recorded) + 1 - i]

\* what the statement says of undo apart from whose turn it is
UndoRemovesAndReopens ==
    /\ RemovedMostRecent
    /\ ui.gameMode = "human" => Len(ui.removedMoves) = 1
    /\ ui.gameMode = "ai" =>
            /\ Cardinality(RemovedColors(Len(ui.removedMoves) - 1)) < 2
            /\ Cardinality(RemovedColors(Len(ui.removedMoves))) = 2
                    \/ Len(ui.moveHistory) = 0
    /\ \A i \in 1 .. Len(ui.removedMoves) :
            ui.board[ui.removedMoves[i].row][ui.removedMoves[i].col] = EMPTY
    /\ ~ui.gameOver
    /\ ui.currentPlayer = turnAfterUndo(ui)

\* C21: the Undo button removes exactly the last recorded move in
\* human-vs-human mode, and in human-vs-AI mode the most recent moves until
\* one move of each colour has been removed or the history is empty; the
\* removed cells become empty, gameOver becomes false, and currentPlayer
\* becomes the opponent of the last remaining history entry (Black when
\* none remains), which is the player whose move was undone last.
C21_UndoButton ==
    Returned_undo =>
        /\ UndoRemovesAndReopens
        /\ ui.currentPlayer = ui.removedMoves[Len(ui.removedMoves)].player

\* the statement without its last clause
C21_UndoButtonButForTheTurn == Returned_undo => UndoRemovesAndReopens

\* undo has just reopened a game that was won
C21_ReopensWonGame ==
    /\ Returned_undo /\ ui.gameMode = "human"
    /\ \E u \in {script_makeMove(ui, ui.removedMoves[1].row, ui.removedMoves[1].col)} :
            u.gameOver /\ Len(u.winningSequence) >= 5

\* undo in AI mode has removed a move of each colour
C21_RemovesBothColors ==
    /\ Returned_undo /\ ui.gameMode = "ai"
    /\ Len(ui.removedMoves) = 2 /\ Len(ui.moveHistory) > 0

\* undo in AI mode has emptied the history with one removal
C21_RemovesOnlyMove ==
    /\ Returned_undo /\ ui.gameMode = "ai"
    /\ Len(ui.removedMoves) = 1 /\ Len(ui.moveHistory) = 0

(***************************************************************************)
(* The move history and the board of an engine.                           *)
(***************************************************************************)
\* every history entry of engine x names a cell holding the entry's colour
EntriesOnBoard(x) ==
    \A i \in 1 .. Len(hists[engines[x].moveHistory]) :
        \E m \in {hists[engines[x].moveHistory][i]} :
            /\ isInside(engines[x].boardSize, m.row, m.col)
            /\ boards[engines[x].board][m.row][m.col] = m.player

\* no two history entries of engine x name the same cell
EntriesOnDistinctCells(x) ==
    \A i, j \in 1 .. Len(hists[engines[x].moveHistory]) :
        i # j => Cell(hists[engines[x].moveHistory][i].row, hists[engines[x].moveHistory][i].col)
                    # Cell(hists[engines[x].moveHistory][j].row, hists[engines[x].moveHistory][j].col)

HistoryAgreesWithBoard == \A x \in Live : EntriesOnBoard(x) /\ EntriesOnDistinctCells(x)

\* C33: in every engine state reached through reset, applyMove,
\* undoLastMove, successful loadState and clone (no loadState has failed
\* half-way), every move-history entry (row, col, player) satisfies
\* board[row][col] = player and no two history entries name the same cell;
\* hence undoLastMove has only emptied cells that held the removed move's
\* stone (the cell of each removed move is recorded by no remaining entry).
C33_HistoryAgreesWithBoard ==
    partialLoads = 0 =>
        /\ HistoryAgreesWithBoard
        /\ last.op = "undoLastMove" =>
                \A i \in 1 .. Len(last.ret) :
                    \A j \in 1 .. Len(hists[engines["e"].moveHistory]) :
                        Cell(last.ret[i].row, last.ret[i].col)
                            # Cell(hists[engines["e"].moveHistory][j].row,
                                   hists[engines["e"].moveHistory][j].col)

\* a snapshot whose history names one cell twice
NamesACellTwice(state) ==
    /\ "moveHistory" \in DOMAIN state
    /\ \E i, j \in 1 .. Len(state.moveHistory) :
            /\ i # j
            /\ state.moveHistory[i].row = state.moveHistory[j].row
            /\ state.moveHistory[i].col = state.moveHistory[j].col

\* the agreement of history and board is kept by every operation except a
\* loadState that fails half-way or is given a history naming a cell twice
C33_KeptButByLoadState ==
    [][(/\ HistoryAgreesWithBoard
        /\ ~(last'.op = "loadState" /\ (last'.ret.threw \/ NamesACellTwice(last'.state))))
            => HistoryAgreesWithBoard']_vars

\* an undo after a successful load of a history naming a cell twice: the
\* emptied cell is still recorded in the history
C33_UndoOfRepeatedEntry ==
    /\ partialLoads = 0
    /\ last.op = "undoLastMove" /\ Len(last.ret) = 1
    /\ ~EntriesOnBoard("e")

(***************************************************************************)
(* A game on a fresh engine: applyMove and undoLastMove only.  The caller  *)
(* fills rows 0 and 1 in turn, column by column, so that the ninth stone   *)
(* completes row 0.                                                        *)
(***************************************************************************)
TurnOrder ==
    <<Cell(0, 0), Cell(1, 0), Cell(0, 1), Cell(1, 1), Cell(0, 2), Cell(1, 2),
      Cell(0, 3), Cell(1, 3), Cell(0, 4), Cell(1, 4)>>

\* applyMove on the first cell of TurnOrder that is empty
PlayInTurn(e) ==
    \E i \in 1 .. Len(TurnOrder) :
        /\ boards[engines[e].board][TurnOrder[i].row][TurnOrder[i].col] = EMPTY
        /\ \A j \in 1 .. (i - 1) :
                boards[engines[e].board][TurnOrder[j].row][TurnOrder[j].col] # EMPTY
        /\ \E r \in {applyMove(Now, e, TurnOrder[i].row, TurnOrder[i].col)} :
                /\ Becomes(r.W)
                /\ last' = Op("applyMove", e, r.ret)
                /\ played' = IF r.ret.status = "invalid" THEN played
                             ELSE Append(played, r.W.eng[e].lastMove)

NextTurns ==
    \/ PlayInTurn("e") /\ UNCHANGED <<partialLoads, onlyMoves, ai, call, ui>>
    \/ UndoLastMove("e") /\ onlyMoves' = FALSE /\ UNCHANGED <<partialLoads, ai, call, ui>>

SpecTurns == Init /\ [][NextTurns]_vars

\* the number of stones of one colour on the board of engine e
StoneCount(player) ==
    Cardinality({rc \in Idx \X Idx : boards[engines["e"].board][rc[1]][rc[2]] = player})

AlternatingPlay ==
    /\ StoneCount(BLACK) - StoneCount(WHITE) \in {0, 1}
    /\ ~engines["e"].gameOver =>
            (engines["e"].currentPlayer = BLACK <=> StoneCount(BLACK) = StoneCount(WHITE))

\* C34: in every state reached from a fresh engine (starting player Black,
\* any maxHistory setting) through applyMove and undoLastMove, the number of
\* Black stones minus the number of White stones is 0 or 1, and while the
\* game is active currentPlayer is Black exactly when the two counts are
\* equal.
C34_AlternatingPlay == AlternatingPlay

\* the same, for engines without a history limit
C34_AlternatingPlayUnlimited == engines["e"].maxHistory = 0 => AlternatingPlay

\* an undo on an engine without a history limit has handed the turn back
C34_TurnHandedBack ==
    /\ engines["e"].maxHistory = 0
    /\ last.op = "undoLastMove" /\ Len(last.ret) = 1
    /\ StoneCount(BLACK) = 2 /\ StoneCount(WHITE) = 1
    /\ engines["e"].currentPlayer = WHITE

\* with a history limit, Black has been given the turn with a stone ahead
C34_BlackMovesTwice ==
    /\ engines["e"].maxHistory > 0
    /\ ~engines["e"].gameOver
    /\ engines["e"].currentPlayer = BLACK
    /\ StoneCount(BLACK) = StoneCount(WHITE) + 1

(***************************************************************************)
(* The winning sequence of an engine.                                      *)
(***************************************************************************)
\* seq lists, each once and in any order, the cells of a straight unbroken
\* run of at least five cells that all hold one colour on the board
IsRunOnBoard(seq, board) ==
    /\ Len(seq) >= 5
    /\ \A i, j \in 1 .. Len(seq) : i # j => seq[i] # seq[j]
    /\ \E s \in 1 .. Len(seq) : \E n \in 1 .. 4 :
            {seq[i] : i \in 1 .. Len(seq)} =
                {Cell(seq[s].row + k * ColumnFirstOrder[n][1],
                      seq[s].col + k * ColumnFirstOrder[n][2]) : k \in 0 .. (Len(seq) - 1)}
    /\ \A i \in 1 .. Len(seq) :
            /\ isInside(Length(board), seq[i].row, seq[i].col)
            /\ board[seq[i].row][seq[i].col] \in {BLACK, WHITE}
            /\ board[seq[i].row][seq[i].col] = board[seq[1].row][seq[1].col]

WinningSequenceOnBoard(x) ==
    engines[x].winningSequence # <<>> =>
        /\ engines[x].gameOver
        /\ IsRunOnBoard(engines[x].winningSequence, boards[engines[x].board])

\* C35: in every reachable engine state the winning sequence is non-empty
\* only when gameOver is true, and when non-empty it consists of at least 5
\* distinct, collinear, contiguous cells that all hold the same colour on
\* the current board.
C35_WinningSequenceOnBoard == \A x \in Live : WinningSequenceOnBoard(x)

\* the same, as long as no loadState has failed half-way
C35_WinningSequenceUnlessPartialLoad ==
    partialLoads = 0 => \A x \in Live : WinningSequenceOnBoard(x)

\* a won game, on the engine and on its clone
C35_WonAndCloned ==
    /\ partialLoads = 0
    /\ "c" \in Live
    /\ Len(engines["c"].winningSequence) >= 5
    /\ engines["c"].winningSequence = engines["e"].winningSequence
    /\ boards[engines["c"].board] = boards[engines["e"].board]

(***************************************************************************)
(* The search on its own: a caller hands a board to minimax with the full  *)
(* window, or hands the same board to makeMove twice, to two players that  *)
(* differ in what their random() returns only.                             *)
(***************************************************************************)
\* a full board but for three corners, where neither colour completes a line
ThreeEmptyBoard == [TwoEmptyBoard EXCEPT ![0][BOARD_SIZE - 1] = EMPTY]

SearchBoards ==
    {EmptyBoard, CornerBoard, OpeningBoard, OpenThreeBoard, BothThreatsBoard,
     ThreeEmptyBoard, TwoEmptyBoard, OneEmptyBoard, AIFullBoard}

SearchDepths == 0 .. (HARD_SEARCH_DEPTH - 1)

\* the two values of random(): every pair for the easy tier, one pair otherwise
RandomPairs(difficulty) ==
    IF difficulty = "easy"
    THEN {p \in (0 .. (RandomSteps - 1)) \X (0 .. (RandomSteps - 1)) : p[1] < p[2]}
    ELSE {<<0, RandomSteps - 1>>}

SearchCalls ==
    {[op |-> "minimax", phase |-> "called", board |-> b,
      self |-> [difficulty |-> "hard", playerColor |-> pl, random |-> 0, telemetry |-> "none"],
      depth |-> d, maximizingPlayer |-> mx] :
        b \in SearchBoards, pl \in {BLACK, WHITE}, d \in SearchDepths, mx \in BOOLEAN}
    \cup
    {[op |-> "makeMove", phase |-> "called", board |-> b,
      self |-> [difficulty |-> x[1], playerColor |-> pl, random |-> x[2][1],
                telemetry |-> "none"],
      other |-> x[2][2]] :
        b \in SearchBoards, pl \in {BLACK, WHITE},
        x \in {y \in Difficulties \X ((0 .. (RandomSteps - 1)) \X (0 .. (RandomSteps - 1))) :
                    y[2] \in RandomPairs(y[1])}}

InitSearch ==
    /\ InitEngine(0)
    /\ ai = NoAI
    /\ ui = NoUI
    /\ call \in SearchCalls

\* minimax(board, depth, maximizingPlayer, -Infinity, Infinity, metrics, 1)
Minimax ==
    /\ call.op = "minimax" /\ call.phase = "called"
    /\ \E r \in {minimax(call.board, call.depth, call.maximizingPlayer, -Infinity, Infinity,
                         call.self, 1, NoMetrics)} :
            call' = [op |-> call.op, phase |-> "returned", board |-> call.board,
                     self |-> call.self, depth |-> call.depth,
                     maximizingPlayer |-> call.maximizingPlayer,
                     ret |-> r.score, after |-> r.board, metrics |-> r.metrics]
    /\ UNCHANGED <<engineVars, ai, ui>>

\* makeMove(board) by the player, and makeMove on an equal board by a player
\* whose random() returns call.other
MakeMoveTwice ==
    /\ call.op = "makeMove" /\ call.phase = "called"
    /\ \E r \in {makeMove(call.board, call.self)} :
       \E o \in {makeMove(call.board, [call.self EXCEPT !.random = call.other])} :
            call' = [op |-> call.op, phase |-> "returned", board |-> call.board,
                     self |-> call.self, other |-> call.other,
                     move |-> r.move, after |-> r.board, metrics |-> r.metrics,
                     otherMove |-> o.move]
    /\ UNCHANGED <<engineVars, ai, ui>>

NextSearch == Minimax \/ MakeMoveTwice

SpecSearch == InitSearch /\ [][NextSearch]_vars

(***************************************************************************)
(* Properties of the hard tier's search.                                   *)
(***************************************************************************)
Returned_search == call.op \in {"minimax", "makeMove"} /\ call.phase = "returned"

\* the plies the call may look beyond the board it was given: the depth
\* counter starts at 1 in the first minimax call, which makeHardMove makes
\* with its root move placed and HARD_SEARCH_DEPTH - 1 plies to go
PliesAllowed == IF call.op = "minimax" THEN call.depth + 1 ELSE HARD_SEARCH_DEPTH

SearchWithinBounds ==
    /\ call.metrics.maxDepthReached <= PliesAllowed
    /\ call.metrics.maxBranchingFactor <= HARD_CANDIDATE_LIMIT

EmptyCount(board) ==
    Cardinality({rc \in AIIdx \X AIIdx : board[rc[1]][rc[2]] = EMPTY})

\* C31: every makeMove call terminates; the hard search never looks more
\* than HARD_SEARCH_DEPTH (3) plies beyond the given position (telemetry
\* maxDepthReached <= searchDepth), each minimax node expands at most
\* HARD_CANDIDATE_LIMIT (8) children, and at the moment every recursive
\* call returns the board equals the board at that call's entry.
C31_BoundedSearch ==
    Returned_search => (SearchWithinBounds /\ call.metrics.restored)

\* the depth and the branching are bounded on every board
C31_DepthAndBranching == Returned_search => SearchWithinBounds

\* every recursive call returns with the board it was entered with when the
\* board has an empty cell left for each ply
C31_RestoredWithRoom ==
    (Returned_search /\ EmptyCount(call.board) >= PliesAllowed) => call.metrics.restored

\* a search that went to the full depth with eight children at some node
C31_FullDepthSearch ==
    /\ Returned_search /\ call.op = "makeMove"
    /\ call.metrics.decision = "search"
    /\ call.metrics.maxDepthReached = HARD_SEARCH_DEPTH
    /\ call.metrics.maxBranchingFactor = HARD_CANDIDATE_LIMIT
    /\ call.metrics.restored

\* a search on a board with exactly three empty cells
\* the hard tier has searched from a board with one empty cell and a call
\* of minimax has returned with another board than it was entered with
C31_NotRestored ==
    /\ Returned_search /\ call.op = "makeMove" /\ call.self.difficulty = "hard"
    /\ call.board = OneEmptyBoard /\ call.self.playerColor = BLACK
    /\ call.metrics.decision = "search"
    /\ ~call.metrics.restored
    /\ call.after # call.board

\* a search on a board with exactly three empty cells
C31_SearchWithThreeEmpty ==
    /\ Returned_search /\ call.op = "makeMove"
    /\ call.metrics.decision = "search"
    /\ EmptyCount(call.board) = HARD_SEARCH_DEPTH
    /\ call.metrics.restored

(***************************************************************************)
(* Minimax without cutoffs: the loop of minimax runs over every candidate  *)
(* of the ranked list.                                                     *)
(***************************************************************************)
RECURSIVE exhaustiveMinimax(_, _, _, _)
RECURSIVE exhaustiveLoop(_, _, _, _, _, _, _)
exhaustiveLoop(board, depth, maximizingPlayer, candidates, i, best, self) ==
    IF i > Len(candidates) THEN [board |-> board, score |-> best]
    ELSE
    LET current == IF maximizingPlayer THEN self.playerColor
                   ELSE getOpponentColor(self.playerColor)
        row == candidates[i].row
        col == candidates[i].col
        placed == [board EXCEPT ![row][col] = current]
    IN
    With(IF checkWinningMove(placed, row, col, current)
         THEN [board |-> placed,
               score |-> IF maximizingPlayer THEN WIN_SCORE ELSE -WIN_SCORE]
         ELSE exhaustiveMinimax(placed, depth - 1, ~maximizingPlayer, self),
         LAMBDA r :
            IF (maximizingPlayer /\ r.score > best) \/ (~maximizingPlayer /\ r.score < best)
            THEN exhaustiveLoop([r.board EXCEPT ![row][col] = EMPTY], depth, maximizingPlayer,
                                candidates, i + 1, r.score, self)
            ELSE exhaustiveLoop([r.board EXCEPT ![row][col] = EMPTY], depth, maximizingPlayer,
                                candidates, i + 1, best, self))

exhaustiveMinimax(board, depth, maximizingPlayer, self) ==
    IF depth = 0 THEN [board |-> board, score |-> evaluateBoard(board, self.playerColor)]
    ELSE
    With(prepareCandidatesForPlayer(board,
                                    IF maximizingPlayer THEN self.playerColor
                                    ELSE getOpponentColor(self.playerColor),
                                    HARD_CANDIDATE_LIMIT, self),
         LAMBDA c :
    IF Len(c.ranked) = 0
    THEN [board |-> c.board, score |-> evaluateBoard(c.board, self.playerColor)]
    ELSE
    With(exhaustiveLoop(c.board, depth, maximizingPlayer, c.ranked, 1,
                        IF maximizingPlayer THEN -Infinity ELSE Infinity, self),
         LAMBDA r :
            IF r.score = Infinity \/ r.score = -Infinity
            THEN [board |-> r.board, score |-> evaluateBoard(r.board, self.playerColor)]
            ELSE r))

\* the loop of makeHardMove over the values of the search without cutoffs
RECURSIVE exhaustiveHardLoop(_, _, _, _, _, _)
exhaustiveHardLoop(board, candidates, i, self, bestScore, bestMove) ==
    IF i > Len(candidates) THEN bestMove
    ELSE
    LET row == candidates[i].row
        col == candidates[i].col
        placed == [board EXCEPT ![row][col] = self.playerColor]
    IN
    With(IF checkWinningMove(placed, row, col, self.playerColor)
         THEN [board |-> placed, score |-> WIN_SCORE]
         ELSE exhaustiveMinimax(placed, HARD_SEARCH_DEPTH - 1, FALSE, self),
         LAMBDA r :
            IF r.score > bestScore
            THEN exhaustiveHardLoop([r.board EXCEPT ![row][col] = EMPTY], candidates, i + 1,
                                    self, r.score, Cell(row, col))
            ELSE exhaustiveHardLoop([r.board EXCEPT ![row][col] = EMPTY], candidates, i + 1,
                                    self, bestScore, bestMove))

\* the move of the hard tier when its search has no cutoff
exhaustiveHardMove(board, self) ==
    With(winOrBlock(board, self),
         LAMBDA forced :
    IF forced.move # NoCell THEN forced.move
    ELSE
    With(prepareCandidates(board, HARD_CANDIDATE_LIMIT, self.playerColor, self.playerColor),
         LAMBDA c : exhaustiveHardLoop(c.board, c.ranked, 1, self, -Infinity, NoCell)))

\* C32: alpha-beta pruning does not change the result: for every board and
\* depth, minimax called with the window (-Infinity, +Infinity) returns the
\* same value as a minimax without any cutoff over the same ranked candidate
\* lists, so the move chosen by the hard tier equals the move chosen by the
\* unpruned search.
C32_PruningKeepsResult ==
    /\ (call.op = "minimax" /\ call.phase = "returned") =>
            call.ret = exhaustiveMinimax(call.board, call.depth, call.maximizingPlayer,
                                         call.self).score
    /\ (call.op = "makeMove" /\ call.phase = "returned" /\ call.self.difficulty = "hard") =>
            call.move = exhaustiveHardMove(call.board, call.self)

\* the hard tier has chosen a move by a search in which branches were cut off
C32_Witness ==
    /\ call.op = "makeMove" /\ call.phase = "returned" /\ call.self.difficulty = "hard"
    /\ call.metrics.decision = "search"
    /\ call.metrics.prunedBranches > 0
    /\ call.metrics.maxBranchingFactor = HARD_CANDIDATE_LIMIT

(***************************************************************************)
(* What the random source decides.                                         *)
(***************************************************************************)
Returned_twice == call.op = "makeMove" /\ call.phase = "returned"

\* the cells of the first EASY_TOP_CHOICES candidates of the easy tier
TopChoices ==
    With(prepareCandidates(call.board, EASY_CANDIDATE_LIMIT, call.self.playerColor,
                           call.self.playerColor).ranked,
         LAMBDA ranked :
            {Cell(ranked[i].row, ranked[i].col) :
                i \in 1 .. Min(EASY_TOP_CHOICES, Len(ranked))})

\* neither colour can complete five in a row with one stone
NoImmediateWin ==
    \A player \in {BLACK, WHITE} : findWinningMove(call.board, player) = NoCell

C36_MediumChoice ==
    /\ Returned_twice /\ call.self.difficulty = "medium"
    /\ call.metrics.decision = "candidate"
    /\ call.board = OpeningBoard

(***************************************************************************)
(* Review mode and the live position.                                      *)
(***************************************************************************)
LivePosition(u) == [board |-> u.board, currentPlayer |-> u.currentPlayer, gameOver |-> u.gameOver]

\* the exit button has just taken the page out of review mode
LeftReview == ui.event = "exitReviewMode"

\* C37: after review mode has been entered from a live position, the pointer
\* moved or the history replayed, and review mode left by the exit button,
\* board, currentPlayer and gameOver are as they were when review mode was
\* entered
C37_ReviewRestoresLivePosition == LeftReview => LivePosition(ui) = ui.entered

\* the same when moveHistory held every stone of the board on entry
C37_RestoredFromCompleteHistory == LeftReview /\ StonesOn15(ui.entered.board) = Len(ui.moveHistory) => LivePosition(ui) = ui.entered

\* the stones that were shifted out of moveHistory are gone after the review
C37_ShiftedStonesLost == LeftReview /\ StonesOn15(ui.entered.board) > Len(ui.moveHistory) => StonesOn15(ui.board) = Len(ui.moveHistory) /\ ui.currentPlayer = ui.entered.currentPlayer

\* review mode was left after a replay had run to the end of a three-move game against the AI
C37_LeftAfterReview == LeftReview /\ ui.gameMode = "ai" /\ Len(ui.moveHistory) = MaxReviewedMoves /\ LivePosition(ui) = ui.entered

\* review mode was left with a full history and a stone shifted out of it
C37_LeftLongReview == LeftReview /\ Len(ui.moveHistory) = MAX_HISTORY /\ StonesOn15(ui.entered.board) > MAX_HISTORY

(***************************************************************************)
(* Turns against the AI on the page.                                       *)
(***************************************************************************)
StonesOf15(board, player) == Cardinality({x \in AIIdx \X AIIdx : board[x[1]][x[2]] = player})

\* the colours of the stones a step of the page puts on empty cells
PlacedColors == {ui'.board[x[1]][x[2]] : x \in {y \in AIIdx \X AIIdx : ui.board[y[1]][y[2]] = EMPTY}} \ {EMPTY}

\* a timer callback places a stone only when the game is not over, the page
\* is not in review mode and it is the AI's turn, and the stone is the AI's
TimerPlacesOnAITurn == ui'.event = "makeAIMove" /\ ui'.board # ui.board => ~ui.gameOver /\ ~ui.isReviewMode /\ ui.currentPlayer = ui.aiPlayerColor /\ PlacedColors = {ui.aiPlayerColor}

\* against the AI, a click places a stone only on the human's turn, and the
\* stone is the human's
ClickPlacesOnHumanTurn == ui'.event = "handleCellClick" /\ ui.gameMode = "ai" /\ ui'.board # ui.board => ~ui.gameOver /\ ~ui.isReviewMode /\ ui.currentPlayer = ui.humanPlayerColor /\ PlacedColors = {ui.humanPlayerColor}

\* the stones of a live game against the AI are those of players who took
\* turns, Black first
StonesAlternate == ui.gameMode = "ai" /\ ~ui.isReviewMode => StonesOf15(ui.board, BLACK) - StonesOf15(ui.board, WHITE) \in {0, 1}

\* C38: against the AI, whatever the interleaving of clicks, Undo, New Game,
\* the selects, the history panel and the pending timers, a timer callback
\* places a stone only when the game is not over, the page is not in review
\* mode and it is the AI's turn, a click places a stone only on the human's
\* turn, every stone the AI places has the AI's colour, and no side places
\* two stones in a row
C38_StonesPlacedInTurn == [][TimerPlacesOnAITurn /\ ClickPlacesOnHumanTurn]_vars /\ []StonesAlternate

\* the part about the handlers' guards and the colours of the stones
C38_GuardsAndColours == [][TimerPlacesOnAITurn /\ ClickPlacesOnHumanTurn]_vars

\* the stones alternate while moveHistory holds every stone of the board and
\* begins with the first stone of the game
C38_AlternateWithCompleteHistory == ui.gameMode = "ai" /\ ~ui.isReviewMode /\ StonesOn15(ui.board) = Len(ui.moveHistory) /\ (Len(ui.moveHistory) > 0 => ui.moveHistory[1].player = BLACK) => StonesOf15(ui.board, BLACK) - StonesOf15(ui.board, WHITE) \in {0, 1}

\* the AI has placed a stone while a second timer was pending
C38_AIPlacedWithTimerPending == ui.event = "makeAIMove" /\ ui.aiTimers > 0 /\ ui.gameMode = "ai" /\ ui.currentPlayer = ui.humanPlayerColor /\ Len(ui.moveHistory) > 0

\* the human has two stones on the board and the AI none
C38_HumanPlacedTwice == ui.gameMode = "ai" /\ ~ui.isReviewMode /\ StonesOf15(ui.board, ui.humanPlayerColor) = 2 /\ StonesOf15(ui.board, ui.aiPlayerColor) = 0

(***************************************************************************)
(* The AI's turn on the page.                                              *)
(***************************************************************************)
\* the game against the AI is live and it is the AI's turn
AIToMove == ui.gameMode = "ai" /\ ~ui.gameOver /\ ~ui.isReviewMode /\ ui.currentPlayer = ui.aiPlayerColor

TimerPending == AIToMove => ui.aiTimers > 0

\* C39: against the AI, whenever the game is live (not over, not in review
\* mode) and it is the AI's turn, at least one timer that calls makeAIMove is
\* pending, so that the page never waits on the AI for ever: the AI moves,
\* unless the user takes the turn away first
C39_AIMoveScheduled == []TimerPending /\ (AIToMove ~> ~AIToMove)

\* the exit button has handed the turn back to the AI with one timer pending
C39_ScheduledOnExit == LeftReview /\ AIToMove /\ ui.aiTimers = 1 /\ Len(ui.moveHistory) > 0

\* Undo has handed the turn to the AI
C39_ScheduledOnUndo == ui.event = "undo" /\ AIToMove /\ ui.aiTimers > 0 /\ Len(ui.moveHistory) > 0

=============================================================================
